---- MODULE Spec2Model ----
(***************************************************************************)
(* A model of the Christmas-tree scene (src/unnamed/part_001):             *)
(*   - GestureController.predictWebcam: gesture samples to mode commands   *)
(*     and the angular-velocity signal (cameraSpeed);                      *)
(*   - Experience.useFrame: integration of cameraSpeed into the orbit      *)
(*     angles;                                                             *)
(*   - OrnamentTree / PhotoOrnaments / FairyLights: construction of the    *)
(*     populations and their per-frame interpolation;                      *)
(*   - the rejection-sampling placement loops;                             *)
(*   - the shake detector and the life cycle of the recognition loop;      *)
(*   - the photo list, the detail card and the memos;                      *)
(*   - the runs of the effect under StrictMode, and the main thread.       *)
(*                                                                         *)
(* Numbers.  The source computes in floating point; the model computes     *)
(* exactly, in fixed point:                                                *)
(*   - hand coordinates, angular velocities and angles: units of 1e-4      *)
(*     (normalised frame coordinate, resp. radians);                       *)
(*   - gesture scores: units of 1e-2;                                      *)
(*   - frame deltas: units of 1/8 second;                                  *)
(*   - animated positions: units of 1/PosScale world units, PosScale a     *)
(*     power of 8 large enough that every lerp of a run is exact;          *)
(*   - placement coordinates: units of 1/1320 world unit, distances        *)
(*     squared.                                                            *)
(* Each specification below exercises one part of the program; the         *)
(* variables of the other parts stay at their initial value.               *)
(***************************************************************************)
EXTENDS Integers, Sequences, FiniteSets, TLC

VARIABLES
    \* ---- shared React state of GrandTreeApp
    sceneState,     \* 'CHAOS' | 'FORMED'
    cameraSpeed,    \* {x, y}: the published angular-velocity signal
    aiStatus,       \* the status string
    nPhotos,        \* photos.length
    \* ---- GestureController
    lastHandPos,    \* lastHandPos.current: <<>> (null) or <<[x, y]>>
    lastOp,         \* history: the operation that produced this state
    sample,         \* history: the results processed by the last predictWebcam
    prevHand,       \* history: lastHandPos.current when the last predictWebcam started
    emitted,        \* history: the signal the last predictWebcam passed to onMove, <<>> if none
    \* ---- Experience (OrbitControls)
    polar,          \* controls.getPolarAngle()
    azimuth,        \* controls.getAzimuthalAngle()
    prevPolar,      \* history: the polar angle when the last frame update started
    controlsAutoRotate, \* the autoRotate property of the controls, as last rendered
    \* ---- Shake to Snow effect of GrandTreeApp
    isSnowing,      \* the snow flag
    lastAccel,      \* lastX, lastY, lastZ: <<>> (null) or <<[x, y, z]>>
    timeout,        \* the timer handle held by the effect: <<>> (undefined) or <<deadline>>
    pendingTimers,  \* the expiry timers set and neither fired nor cleared, by deadline
    now,            \* the time, in seconds
    listening,      \* the devicemotion listener is registered
    motion,         \* history: the event given to the last handleMotion
    shakeAt,        \* history: <<>> or <<[at, refreshed]>>: the time of the last qualifying
                    \* shake, and whether its clearTimeout cleared a pending timer
    shook,          \* history: <<|dx| + |dy| + |dz|>> computed by the last handleMotion, <<>> if none
    \* ---- GestureController: life cycle of the recognition loop
    mounted,        \* the view is mounted: videoRef.current and canvasRef.current are set
    recognizer,     \* "none" | "loading" | "ready" | "failed"
    camera,         \* getUserMedia: "none" | "requesting" | "granted" | "denied" | "unsupported"
    streamLive,     \* the camera stream is acquired and its tracks are live
    srcObject,      \* the stream is attached to the video element
    videoReady,     \* video.readyState === 4
    rafPending,     \* an animation frame for predictWebcam is requested
    \* ---- populations (one representative instance each)
    foliage,        \* OrnamentTree: count, targets[i], randoms[i], instance position
    photos,         \* PhotoOrnaments: count, data[i]
    lights,         \* FairyLights: count, data[i]
    frames,         \* number of rendered frames so far
    lastDelta,      \* history: <<delta>> of the frame just rendered, <<>> after any other step
    \* ---- placement loops
    builder,        \* which useMemo is running: "foliage" | "photos" | "lights"
    pc,             \* position in the loop: "attempt" | "place" | "done"
    idx,            \* loop index i
    attempts,       \* attempts made for point i
    cand,           \* the last generated candidate
    valid,          \* foliage: valid; photos: the attempt loop was left by break
    targetPos,      \* photos: targetPos
    bestPos,        \* photos: bestPos
    maxDistToClosest, \* photos: maxDistToClosest (squared), -1 initially
    placedPositions,\* the positions placed so far
    targets,        \* the target positions written so far
    accepted,       \* history: for each placed point, whether the distance test accepted it
    tried,          \* history: photos: the candidates generated so far for point i
    \* ---- photo list, detail card and memos of GrandTreeApp
    photoList,      \* photos: the object URLs, each a number given at its upload
    selectedPhotoIndex, \* <<>> (null) or <<index>>
    memos,          \* the entries of memos: [index, text, photo], photo being history: the
                    \* photo the card showed when the text was typed
    clicked,        \* history: <<>> or <<the photo on the ornament of the last click>>
    \* ---- GestureController: the runs of its effect
    effects,        \* per run of the effect: [cleaned, recognizer, camera, scheduled]
    ranBy,          \* history: the run whose predictWebcam ran last, 0 if none
    \* ---- the main thread
    inferring,      \* predictWebcam is inside recognizeForVideo
    remaining,      \* the refresh intervals the inference in progress still takes
    predictDue,     \* the animation frame requested for predictWebcam has begun
    frameDue,       \* the animation frame of the render loop has begun
    waited,         \* refresh intervals the due frame update has spent behind an inference
    refreshes       \* display refreshes so far

gestureVars == <<lastHandPos, lastOp, sample, prevHand, emitted>>
cameraVars  == <<polar, azimuth, prevPolar>>
animVars    == <<foliage, photos, lights, frames, lastDelta>>
shakeVars   == <<isSnowing, lastAccel, timeout, pendingTimers, now, listening, motion, shakeAt,
                 shook>>
loopVars    == <<mounted, recognizer, camera, streamLive, srcObject, videoReady, rafPending>>
placeVars   == <<builder, pc, idx, attempts, cand, valid, targetPos, bestPos, maxDistToClosest,
                 placedPositions, targets, accepted, tried>>
cardVars    == <<photoList, selectedPhotoIndex, memos, clicked>>
strictVars  == <<effects, ranBy>>
threadVars  == <<inferring, remaining, predictDue, frameDue, waited, refreshes>>
vars == <<sceneState, cameraSpeed, aiStatus, nPhotos, controlsAutoRotate,
          gestureVars, cameraVars, animVars, placeVars, shakeVars, loopVars,
          cardVars, strictVars, threadVars>>

Abs(n) == IF n < 0 THEN -n ELSE n
Min(a, b) == IF a < b THEN a ELSE b
Max(a, b) == IF a > b THEN a ELSE b

Modes == {"CHAOS", "FORMED"}

(***************************************************************************)
(* Values of the parts a specification does not exercise.                  *)
(***************************************************************************)
NoHand == <<>>
NoSample == [gestures |-> <<>>, landmarks |-> <<>>]
NoEmit == <<>>
NoDelta == <<>>
ZeroSpeed == [x |-> 0, y |-> 0]
NoInstance == <<>>

GestureIdle ==
    /\ lastHandPos = NoHand
    /\ lastOp = "init"
    /\ sample = NoSample
    /\ prevHand = NoHand
    /\ emitted = NoEmit

CameraIdle ==
    /\ polar = 14601
    /\ azimuth = 0
    /\ prevPolar = 14601

AnimIdle ==
    /\ foliage = [count |-> 0, inst |-> NoInstance]
    /\ photos = [count |-> 0, inst |-> NoInstance]
    /\ lights = [count |-> 0, inst |-> NoInstance]
    /\ frames = 0
    /\ lastDelta = NoDelta

ShakeIdle ==
    /\ isSnowing = FALSE
    /\ lastAccel = <<>>
    /\ timeout = <<>>
    /\ pendingTimers = {}
    /\ now = 0
    /\ listening = TRUE
    /\ motion = <<>>
    /\ shakeAt = <<>>
    /\ shook = <<>>

LoopIdle ==
    /\ mounted = TRUE
    /\ recognizer = "none"
    /\ camera = "none"
    /\ streamLive = FALSE
    /\ srcObject = FALSE
    /\ videoReady = FALSE
    /\ rafPending = FALSE

PlaceIdle ==
    /\ builder = "foliage"
    /\ pc = "done"
    /\ idx = 0
    /\ attempts = 0
    /\ cand = <<0, 0, 0>>
    /\ valid = FALSE
    /\ targetPos = <<0, 0, 0>>
    /\ bestPos = <<0, 0, 0>>
    /\ maxDistToClosest = -1
    /\ placedPositions = <<>>
    /\ targets = <<>>
    /\ accepted = <<>>
    /\ tried = {}

CardIdle ==
    /\ photoList = <<>>
    /\ selectedPhotoIndex = <<>>
    /\ memos = {}
    /\ clicked = <<>>

StrictIdle ==
    /\ effects = <<>>
    /\ ranBy = 0

ThreadIdle ==
    /\ inferring = FALSE
    /\ remaining = 0
    /\ predictDue = FALSE
    /\ frameDue = FALSE
    /\ waited = 0
    /\ refreshes = 0

\* line 527: the autoRotate property of the controls
autoRotate_AnyMode == cameraSpeed.x = 0 /\ cameraSpeed.y = 0

autoRotate == cameraSpeed.x = 0 /\ cameraSpeed.y = 0 /\ sceneState = "FORMED"

(***************************************************************************)
(* GestureController.predictWebcam, the processing of one recognition      *)
(* result (part_001 lines 635-668).                                        *)
(***************************************************************************)
SENSITIVITY == 5
deadzone == 20
ScoreThreshold == 40

Labels == {"Open_Palm", "Closed_Fist", "Thumb_Up"}
Scores == {30, 40, 50}
HandXs == {5000, 5004, 5005, 5100}
HandYs == {5000, 5001}
\* the positions of the hand: on the two lines x = 0.5 and y = 0.5
Hands == {h \in [x : HandXs, y : HandYs] : h.x = 5000 \/ h.y = 5000}
Gestures == [categoryName : Labels, score : Scores]
\* results.gestures and results.landmarks: empty, or the first hand's entry
Results == [gestures : {<<>>} \cup {<<g>> : g \in Gestures},
            landmarks : {<<>>} \cup {<<h>> : h \in Hands}]

Detected(name) == "DETECTED: " \o name

\* lines 637-638: the mode after a gesture (name, score), given the mode before
ModeAfter_Inclusive(mode, name, score) ==
    IF score >= ScoreThreshold
    THEN IF name = "Closed_Fist" THEN "FORMED"
         ELSE IF name = "Open_Palm" THEN "CHAOS" ELSE mode
    ELSE mode

ModeAfter(mode, name, score) ==
    IF score > ScoreThreshold
    THEN IF name = "Closed_Fist" THEN "FORMED"
         ELSE IF name = "Open_Palm" THEN "CHAOS" ELSE mode
    ELSE mode

\* lines 637-639 with the status set only for the two mode labels
StatusAfter_ModeLabelsOnly(status, name, score) ==
    IF score > ScoreThreshold /\ name \in {"Open_Palm", "Closed_Fist"}
    THEN Detected(name) ELSE status

\* lines 637-639: the status after a gesture
StatusAfter(status, name, score) ==
    IF score > ScoreThreshold THEN Detected(name) ELSE status

\* lines 653-654: finalX
FinalX_Inclusive(deltaX) == IF Abs(deltaX) >= deadzone THEN deltaX ELSE 0

FinalX(deltaX) == IF Abs(deltaX) > deadzone THEN deltaX ELSE 0

\* lines 649-656: the signal passed to onMove for hand after last
MoveSignal_BothAxes(hand, last) ==
    [x |-> FinalX((hand.x - last.x) * SENSITIVITY),
     y |-> -FinalX((hand.y - last.y) * SENSITIVITY)]

MoveSignal(hand, last) ==
    [x |-> FinalX((hand.x - last.x) * SENSITIVITY),
     y |-> -((hand.y - last.y) * SENSITIVITY)]

\* line 659 guarded by the deadzone: the position is kept while x is zeroed
HandPosAfter_HoldInDeadzone(hand, last) ==
    IF last # NoHand /\ FinalX((hand.x - last[1].x) * SENSITIVITY) = 0
    THEN last
    ELSE <<[x |-> hand.x, y |-> hand.y]>>

\* line 659: lastHandPos.current after a sample with the hand, last being
\* lastHandPos.current before it
HandPosAfter(hand, last) == <<[x |-> hand.x, y |-> hand.y]>>

\* lines 662 and 666 without the call of onMove: the signal stays as published
NoHandSignal_Keep(published) == published

\* lines 662 and 666: the signal published when the sample has no hand
NoHandSignal(published) == ZeroSpeed

\* lines 635-668 without the else branch of lines 660-663
ProcessResults_KeepLast(r) ==
    IF Len(r.gestures) > 0
    THEN LET name == r.gestures[1].categoryName
             score == r.gestures[1].score
         IN  /\ sceneState' = ModeAfter(sceneState, name, score)
             /\ aiStatus' = StatusAfter(aiStatus, name, score)
             /\ IF Len(r.landmarks) > 0
                THEN LET hand == r.landmarks[1]
                     IN  /\ IF lastHandPos # NoHand
                            THEN /\ cameraSpeed' = MoveSignal(hand, lastHandPos[1])
                                 /\ emitted' = <<MoveSignal(hand, lastHandPos[1])>>
                            ELSE /\ cameraSpeed' = cameraSpeed
                                 /\ emitted' = NoEmit
                         /\ lastHandPos' = <<[x |-> hand.x, y |-> hand.y]>>
                ELSE /\ lastHandPos' = lastHandPos
                     /\ cameraSpeed' = cameraSpeed
                     /\ emitted' = NoEmit
    ELSE /\ lastHandPos' = NoHand
         /\ cameraSpeed' = ZeroSpeed
         /\ emitted' = <<ZeroSpeed>>
         /\ aiStatus' = "AI READY: NO HAND"
         /\ sceneState' = sceneState

\* lines 635-668, for the results r of recognizeForVideo
ProcessResults(r) ==
    IF Len(r.gestures) > 0
    THEN LET name == r.gestures[1].categoryName
             score == r.gestures[1].score
         IN  /\ sceneState' = ModeAfter(sceneState, name, score)
             /\ aiStatus' = StatusAfter(aiStatus, name, score)
             /\ IF Len(r.landmarks) > 0
                THEN LET hand == r.landmarks[1]
                     IN  /\ IF lastHandPos # NoHand
                            THEN /\ cameraSpeed' = MoveSignal(hand, lastHandPos[1])
                                 /\ emitted' = <<MoveSignal(hand, lastHandPos[1])>>
                            ELSE /\ cameraSpeed' = cameraSpeed
                                 /\ emitted' = NoEmit
                         /\ lastHandPos' = HandPosAfter(hand, lastHandPos)
                ELSE /\ lastHandPos' = NoHand
                     /\ cameraSpeed' = NoHandSignal(cameraSpeed)
                     /\ emitted' = <<NoHandSignal(cameraSpeed)>>
    ELSE /\ lastHandPos' = NoHand
         /\ cameraSpeed' = NoHandSignal(cameraSpeed)
         /\ emitted' = <<NoHandSignal(cameraSpeed)>>
         /\ aiStatus' = "AI READY: NO HAND"
         /\ sceneState' = sceneState

\* lines 635-668 for the results r, and the render that follows
ProcessSample(r) ==
    /\ ProcessResults(r)
    /\ sample' = r
    /\ prevHand' = lastHandPos
    /\ lastOp' = "predictWebcam"
    /\ controlsAutoRotate' = autoRotate'

\* one cycle of the running recognition loop (recognizer and video ready)
PredictWebcam ==
    \E r \in Results :
        /\ ProcessSample(r)
        /\ UNCHANGED <<shakeVars, loopVars,
                       nPhotos, cameraVars, animVars, placeVars,
                   cardVars, strictVars, threadVars>>

\* line 1001: the mode button
ToggleButtonG ==
    /\ sceneState' = (IF sceneState = "CHAOS" THEN "FORMED" ELSE "CHAOS")
    /\ lastOp' = "toggle"
    /\ UNCHANGED <<shakeVars, loopVars,
                   cameraSpeed, aiStatus, nPhotos, lastHandPos, sample, prevHand, emitted,
                   cameraVars, animVars, placeVars,
                   cardVars, strictVars, threadVars>>
    /\ controlsAutoRotate' = autoRotate'

InitGesture ==
    /\ sceneState = "FORMED"
    /\ cameraSpeed = ZeroSpeed
    /\ controlsAutoRotate = autoRotate
    /\ ShakeIdle
    /\ LoopIdle
    /\ aiStatus \in {"AI READY", "AI READY: SHOW HAND"}
    /\ nPhotos = 0
    /\ GestureIdle
    /\ CameraIdle
    /\ AnimIdle
    /\ PlaceIdle
    /\ CardIdle
    /\ StrictIdle
    /\ ThreadIdle

NextGesture == PredictWebcam \/ ToggleButtonG

SpecGesture == InitGesture /\ [][NextGesture]_vars

\* a sample in which a hand is present: a gesture entry and a landmark entry
HandSample(r) == Len(r.gestures) > 0 /\ Len(r.landmarks) > 0

(* C2: every processed sample, whatever the mode before it: a score above 0.4
   with label Open_Palm sets the mode to CHAOS, with label Closed_Fist to
   FORMED; a score of at most 0.4 leaves the mode as it was. *)
C2_ModeChange ==
    [][(lastOp' = "predictWebcam" /\ Len(sample'.gestures) > 0) =>
          LET g == sample'.gestures[1]
          IN  /\ (g.score > 40 /\ g.categoryName = "Open_Palm") => sceneState' = "CHAOS"
              /\ (g.score > 40 /\ g.categoryName = "Closed_Fist") => sceneState' = "FORMED"
              /\ g.score <= 40 => sceneState' = sceneState]_vars

\* a Closed_Fist of score exactly 0.4 was processed in CHAOS and left it CHAOS
C2_Witness ==
    /\ lastOp = "predictWebcam"
    /\ Len(sample.gestures) > 0
    /\ sample.gestures[1] = [categoryName |-> "Closed_Fist", score |-> 40]
    /\ sceneState = "CHAOS"

(* C3: when two consecutive hand samples differ in x by at most
   0.002 / SENSITIVITY, the x component emitted on the second is exactly 0. *)
C3_Deadzone ==
    [][(/\ lastOp' = "predictWebcam"
        /\ HandSample(sample')
        /\ lastHandPos # NoHand
        /\ Abs(sample'.landmarks[1].x - lastHandPos[1].x) * 5 <= 20) =>
          /\ emitted' # NoEmit
          /\ emitted'[1].x = 0
          /\ cameraSpeed'.x = 0]_vars

\* x moved by exactly 0.0004 = 0.002 / 5 and the emitted x is 0
C3_Witness ==
    /\ lastOp = "predictWebcam"
    /\ HandSample(sample)
    /\ prevHand # NoHand
    /\ prevHand[1].x = 5000
    /\ sample.landmarks[1].x = 5004
    /\ emitted # NoEmit
    /\ emitted[1].x = 0

(* C4: a hand sample with a previous position emits
   {x: dz((x - lastX) * 5), y: -((y - lastY) * 5)}, dz zeroing |v| <= 0.002 and
   applied to x only; (0.50, 0.50) then (0.51, 0.50) emits {x: 0.05, y: 0}. *)
C4_Signal ==
    [][(/\ lastOp' = "predictWebcam"
        /\ HandSample(sample')
        /\ lastHandPos # NoHand) =>
          LET dx == (sample'.landmarks[1].x - lastHandPos[1].x) * 5
              dy == (sample'.landmarks[1].y - lastHandPos[1].y) * 5
              want == [x |-> IF dx > 20 \/ dx < -20 THEN dx ELSE 0, y |-> 0 - dy]
          IN  /\ emitted' = <<want>>
              /\ cameraSpeed' = want
              /\ dy # 0 => emitted'[1].y # 0
              /\ (lastHandPos[1] = [x |-> 5000, y |-> 5000]
                    /\ sample'.landmarks[1] = [x |-> 5100, y |-> 5000])
                  => emitted' = <<[x |-> 500, y |-> 0]>>]_vars

\* the scenario of the claim: (0.50, 0.50) then (0.51, 0.50)
C4_Witness ==
    /\ lastOp = "predictWebcam"
    /\ HandSample(sample)
    /\ prevHand = <<[x |-> 5000, y |-> 5000]>>
    /\ sample.landmarks[1] = [x |-> 5100, y |-> 5000]
    /\ emitted = <<[x |-> 500, y |-> 0]>>
    /\ cameraSpeed = [x |-> 500, y |-> 0]

(* C23: every sample with a hand sets lastHandPosition to that sample's
   position, whether or not the deadzone zeroed x and whether or not a
   previous position existed; a hand sample with no previous position emits
   no signal and leaves the published signal as it was. *)
C23_HandPosUpdated ==
    [][(lastOp' = "predictWebcam" /\ HandSample(sample')) =>
          /\ lastHandPos' = <<[x |-> sample'.landmarks[1].x, y |-> sample'.landmarks[1].y]>>
          /\ lastHandPos = <<>> => (emitted' = <<>> /\ cameraSpeed' = cameraSpeed)]_vars

\* x moved by 0.0004, inside the deadzone, and the held position moved with it
C23_Witness ==
    /\ lastOp = "predictWebcam"
    /\ HandSample(sample)
    /\ prevHand # NoHand
    /\ prevHand[1].x = 5000
    /\ emitted # NoEmit
    /\ emitted[1].x = 0
    /\ lastHandPos # NoHand
    /\ lastHandPos[1].x = 5004

(* C24 as stated: a sample whose label is neither Open_Palm nor Closed_Fist
   never changes SceneMode, and its label is reported in the status string. *)
C24_AlwaysReported ==
    [][(/\ lastOp' = "predictWebcam"
        /\ Len(sample'.gestures) > 0
        /\ sample'.gestures[1].categoryName \notin {"Open_Palm", "Closed_Fist"}) =>
          /\ sceneState' = sceneState
          /\ aiStatus' = "DETECTED: " \o sample'.gestures[1].categoryName]_vars

(* C24 as amended: a sample whose label is neither Open_Palm nor Closed_Fist
   never changes SceneMode at any confidence; its label is reported in the
   status string as DETECTED: label when its confidence exceeds 0.4, and at a
   confidence of 0.4 or less the status string is left as it was. *)
C24_OtherLabel ==
    [][(/\ lastOp' = "predictWebcam"
        /\ Len(sample'.gestures) > 0
        /\ sample'.gestures[1].categoryName \notin {"Open_Palm", "Closed_Fist"}) =>
          /\ sceneState' = sceneState
          /\ aiStatus' = IF sample'.gestures[1].score > 40
                         THEN "DETECTED: " \o sample'.gestures[1].categoryName
                         ELSE aiStatus]_vars

\* a Thumb_Up above the threshold was reported while the mode stayed CHAOS
C24_Witness ==
    /\ lastOp = "predictWebcam"
    /\ Len(sample.gestures) > 0
    /\ sample.gestures[1] = [categoryName |-> "Thumb_Up", score |-> 50]
    /\ aiStatus = "DETECTED: Thumb_Up"
    /\ sceneState = "CHAOS"

(* C27: whenever lastHandPosition is unset the published signal is {0, 0}: a
   non-zero cameraSpeed implies that the latest processed sample contained a
   hand. *)
C27_UnsetMeansZero ==
    /\ lastHandPos = <<>> => cameraSpeed = [x |-> 0, y |-> 0]
    /\ cameraSpeed # [x |-> 0, y |-> 0] =>
          (Len(sample.gestures) > 0 /\ Len(sample.landmarks) > 0)

\* a non-zero signal is published and the hand is lost in the next sample
C27_Witness ==
    /\ lastOp = "predictWebcam"
    /\ sample = NoSample
    /\ prevHand # NoHand
    /\ lastHandPos = NoHand
    /\ cameraSpeed = ZeroSpeed
    /\ aiStatus = "AI READY: NO HAND"

(* C19: every processed sample without a hand (no gesture, or a gesture
   without landmarks) resets lastHandPosition to unset and emits the zero
   signal {x: 0, y: 0}. *)
C19_NoHandReset ==
    [][(/\ lastOp' = "predictWebcam"
        /\ (Len(sample'.gestures) = 0 \/ Len(sample'.landmarks) = 0)) =>
          /\ lastHandPos' = <<>>
          /\ emitted' = <<[x |-> 0, y |-> 0]>>
          /\ cameraSpeed' = [x |-> 0, y |-> 0]]_vars

\* a gesture without landmarks arrived while a hand position was held and a
\* non-zero signal had been published
C19_Witness ==
    /\ lastOp = "predictWebcam"
    /\ Len(sample.gestures) > 0
    /\ Len(sample.landmarks) = 0
    /\ prevHand # NoHand
    /\ lastHandPos = NoHand
    /\ emitted = <<ZeroSpeed>>
    /\ cameraSpeed = ZeroSpeed

(***************************************************************************)
(* Experience: the per-frame camera update (part_001 lines 502-512) on the *)
(* OrbitControls of lines 521-530.                                         *)
(***************************************************************************)
\* Math.PI, 0.1 and Math.PI / 1.8 in units of 1e-4 rad
PI == 31416
PolarMargin == 1000
maxPolarAngle == 17453

\* the camera is created at [0, 5, 45] or, in portrait, [0, 10, 75] (lines 515-520)
InitialPolars == {14601, 14382}

\* the signals setCameraSpeed is given in this specification
SignalXs == {0, 15708}
SignalYs == {0, 500, -5000, 15000}

\* line 507: the test on newPolar
PolarInside_NoLower(newPolar) == newPolar < PI - PolarMargin

PolarInside(newPolar) == newPolar > PolarMargin /\ newPolar < PI - PolarMargin

\* line 529 without maxPolarAngle: the controls keep the angle in [0, pi]
ClampPolar_NoMax(phi) == Max(0, Min(PI, phi))

\* OrbitControls.update(): phi is kept in [minPolarAngle (0), maxPolarAngle]
ClampPolar(phi) == Max(0, Min(maxPolarAngle, phi))

\* OrbitControls: theta is kept in (-PI, PI].  (The advance of theta that the
\* controls add by themselves while autoRotate is set is not part of the model.)
WrapAzimuth(theta) ==
    IF theta > PI THEN theta - 2 * PI
    ELSE IF theta <= 0 - PI THEN theta + 2 * PI ELSE theta

\* lines 502-512
CameraFrame ==
    LET newPolar == polar + cameraSpeed.y
    IN  /\ azimuth' = WrapAzimuth(azimuth + cameraSpeed.x)
        /\ polar' = ClampPolar(IF PolarInside(newPolar) THEN newPolar ELSE polar)
        /\ prevPolar' = polar
        /\ lastOp' = "frame"
        /\ UNCHANGED <<controlsAutoRotate, shakeVars, loopVars,
                       sceneState, cameraSpeed, aiStatus, nPhotos,
                       lastHandPos, sample, prevHand, emitted, animVars, placeVars,
                   cardVars, strictVars, threadVars>>

\* line 814: onMove = setCameraSpeed
OnMove ==
    \E sx \in SignalXs, sy \in SignalYs :
        /\ cameraSpeed' = [x |-> sx, y |-> sy]
        /\ lastOp' = "onMove"
        /\ UNCHANGED <<shakeVars, loopVars,
                       sceneState, aiStatus, nPhotos,
                       lastHandPos, sample, prevHand, emitted,
                       cameraVars, animVars, placeVars,
                   cardVars, strictVars, threadVars>>
        /\ controlsAutoRotate' = autoRotate'

InitCamera ==
    /\ sceneState = "FORMED"
    /\ cameraSpeed = ZeroSpeed
    /\ controlsAutoRotate = autoRotate
    /\ ShakeIdle
    /\ LoopIdle
    /\ aiStatus = "AI READY: SHOW HAND"
    /\ nPhotos = 0
    /\ GestureIdle
    /\ polar \in InitialPolars
    /\ azimuth = 0
    /\ prevPolar = polar
    /\ AnimIdle
    /\ PlaceIdle
    /\ CardIdle
    /\ StrictIdle
    /\ ThreadIdle

NextCamera == CameraFrame \/ OnMove \/ ToggleButtonG

SpecCamera == InitCamera /\ [][NextCamera]_vars

(* C1: through any sequence of camera frame updates with any signals, starting
   inside the interval, the polar angle stays strictly inside (0.1, pi - 0.1). *)
C1_PolarClamp == polar > 1000 /\ polar < 31416 - 1000

\* a frame whose polar update was dropped: the sum was at or below 0.1
C1_Witness ==
    /\ lastOp = "frame"
    /\ prevPolar + cameraSpeed.y <= 1000
    /\ polar = prevPolar

(* C22 as stated: a camera frame update always adds the signal's x to the
   azimuth, and sets the polar angle to polar + y if that sum is strictly
   inside (0.1, pi - 0.1), leaving it unchanged otherwise. *)
C22_PolarSetOrDropped ==
    [][lastOp' = "frame" =>
          LET sum == polar + cameraSpeed.y
          IN  /\ (azimuth' - (azimuth + cameraSpeed.x)) % (2 * 31416) = 0
              /\ polar' = IF sum > 1000 /\ sum < 31416 - 1000 THEN sum ELSE polar]_vars

(* C22 as amended: a camera frame update always adds the signal's x to the
   azimuth; if polar + y is strictly inside (0.1, pi - 0.1) the polar angle is
   set to that sum limited to the controls' maxPolarAngle, pi / 1.8; otherwise
   it is left unchanged (dropped, not moved to the bound 0.1 or pi - 0.1). *)
C22_PolarSetWithinMax ==
    [][lastOp' = "frame" =>
          LET sum == polar + cameraSpeed.y
          IN  /\ (azimuth' - (azimuth + cameraSpeed.x)) % (2 * 31416) = 0
              /\ polar' = IF sum > 1000 /\ sum < 31416 - 1000
                          THEN (IF sum > 17453 THEN 17453 ELSE sum)
                          ELSE polar]_vars

\* a frame whose sum was inside (0.1, pi - 0.1) but above pi / 1.8
C22_Witness ==
    /\ lastOp = "frame"
    /\ prevPolar + cameraSpeed.y > 17453
    /\ prevPolar + cameraSpeed.y < 31416 - 1000
    /\ polar = 17453
    /\ cameraSpeed.x # 0

(* C20: the controls auto-rotate exactly when the signal is zero on both axes
   and the mode is FORMED; a non-zero component or the mode CHAOS disables
   it. *)
C20_AutoRotate ==
    /\ controlsAutoRotate = (cameraSpeed.x = 0 /\ cameraSpeed.y = 0 /\ sceneState = "FORMED")
    /\ (cameraSpeed.x # 0 \/ cameraSpeed.y # 0 \/ sceneState = "CHAOS") => ~controlsAutoRotate

\* the mode button switched to CHAOS with a zero signal and auto-rotation stopped
C20_Witness ==
    /\ lastOp = "toggle"
    /\ sceneState = "CHAOS"
    /\ cameraSpeed = ZeroSpeed
    /\ ~controlsAutoRotate

(***************************************************************************)
(* The populations: OrnamentTree (lines 47-159), PhotoOrnaments (lines     *)
(* 162-327), FairyLights (lines 330-376).  Every instance of a population  *)
(* is built and updated by the same code, independently of the others; the *)
(* model keeps the population's count and its instance 0.  A position is   *)
(* one coordinate: Vector3.lerp applies the same factor to each.           *)
(***************************************************************************)
FoliageCount == 500
OrnamentCap == 50
LightCount == 200

MaxFrames == 3
MaxPhotos == 52

RECURSIVE Pow8(_)
Pow8(n) == IF n = 0 THEN 1 ELSE 8 * Pow8(n - 1)
PosScale == Pow8(MaxFrames)

\* the values the random draws of a construction take in this specification
\* (foliage: random.inSphere of radius 60 and the cone; photos: a cube of side
\* 50 and the cone surface + 0.5; lights: a cube of side 60 and the surface + 0.2)
FoliageChaos == {(0 - 40) * PosScale}
FoliageTargets == {3 * PosScale}
PhotoChaos == {(0 - 20) * PosScale, 24 * PosScale}
PhotoTargets == {5 * PosScale}
LightChaos == {28 * PosScale}
LightTargets == {(0 - 6) * PosScale}
\* frame deltas, in eighths of a second: 0, 0.25, 0.5, 1.5
Deltas == {0, 2, 4, 12}
\* the numbers of files one upload adds
UploadSizes == {25, 26}

Instance(c, t, p) == [chaosPos |-> c, targetPos |-> t, currentPos |-> p]

\* line 171: count
PhotoCount_Capped(state, n) == Min(OrnamentCap, n)

PhotoCount(state, n) == IF state = "CHAOS" THEN n ELSE Min(OrnamentCap, n)

\* THREE.Vector3.lerp(v, alpha): this.x += (v.x - this.x) * alpha, alpha = f[1] / f[2]
Lerp(cur, target, f) == cur + ((target - cur) * f[1]) \div f[2]

\* line 119, line 274, line 358: delta * 2.0, delta * 2.0, delta * 2.5
FoliageFactor(delta) == <<delta * 2, 8>>
PhotoFactor(delta) == <<delta * 2, 8>>
LightFactor(delta) == <<delta * 5, 16>>

\* lines 123-125, 272, 357: the target of an instance in a mode
ActiveTarget(state, inst) ==
    IF state = "FORMED" THEN inst.targetPos ELSE inst.chaosPos

\* lines 257 and 347 without clone(): currentPos is the chaosPos vector, and
\* the lerp of the frame update writes it
Animate_SharedVector(pop, state, f) ==
    [pop EXCEPT !.inst =
        [i \in DOMAIN pop.inst |->
            LET moved == Lerp(pop.inst[i].currentPos, ActiveTarget(state, pop.inst[i]), f)
            IN  [pop.inst[i] EXCEPT !.currentPos = moved, !.chaosPos = moved]]]

\* the per-frame update of one population (lines 121-144, 270-275, 355-360)
Animate(pop, state, f) ==
    [pop EXCEPT !.inst =
        [i \in DOMAIN pop.inst |->
            [pop.inst[i] EXCEPT !.currentPos =
                Lerp(pop.inst[i].currentPos, ActiveTarget(state, pop.inst[i]), f)]]]

\* PhotoOrnaments.data for n instances (lines 178-264): the populations the
\* useMemo can return
PhotoData(n) ==
    IF n = 0 THEN {[count |-> 0, inst |-> NoInstance]}
    ELSE {[count |-> n, inst |-> <<Instance(c, t, c)>>] :
            c \in PhotoChaos, t \in PhotoTargets}

\* FairyLights.data (lines 335-349)
LightData ==
    {[count |-> LightCount, inst |-> <<Instance(c, t, c)>>] :
        c \in LightChaos, t \in LightTargets}

\* OrnamentTree targets and randoms (lines 50-109); the instance matrix, and
\* so the position p, belongs to the mesh and outlives the useMemo
FoliageData(p) ==
    {[count |-> FoliageCount, inst |-> <<Instance(c, t, p)>>] :
        c \in FoliageChaos, t \in FoliageTargets}

\* PhotoOrnaments rendered in mode state with n photos, from the population
\* old: useMemo recomputes when textures, count or config changed (line 264)
RenderPhotos(old, state, n, depsChanged) ==
    IF depsChanged \/ PhotoCount(state, n) # old.count
    THEN PhotoData(PhotoCount(state, n))
    ELSE {old}

\* setSceneState(m) and the render that follows
SetSceneState(m) ==
    /\ sceneState' = m
    /\ photos' \in RenderPhotos(photos, m, nPhotos, FALSE)
    /\ lastDelta' = NoDelta
    /\ UNCHANGED <<shakeVars, loopVars,
                   cameraSpeed, aiStatus, nPhotos, foliage, lights, frames,
                   lastHandPos, sample, prevHand, emitted, cameraVars, placeVars,
                   cardVars, strictVars, threadVars>>
    /\ controlsAutoRotate' = autoRotate'

\* line 1001: the mode button
ToggleButton ==
    /\ SetSceneState(IF sceneState = "CHAOS" THEN "FORMED" ELSE "CHAOS")
    /\ lastOp' = "toggle"

\* line 814: onGesture = setSceneState, called with 'CHAOS' or 'FORMED' (line 638)
OnGesture ==
    \E m \in Modes :
        /\ SetSceneState(m)
        /\ lastOp' = "onGesture"

\* lines 775-789: handleUpload with k files, and the render that follows
HandleUpload ==
    \E k \in UploadSizes :
        /\ nPhotos + k <= MaxPhotos
        /\ nPhotos' = nPhotos + k
        /\ photos' \in RenderPhotos(photos, sceneState, nPhotos + k, TRUE)
        /\ lastDelta' = NoDelta
        /\ lastOp' = "upload"
        /\ UNCHANGED <<controlsAutoRotate, shakeVars, loopVars,
                       sceneState, cameraSpeed, aiStatus, foliage, lights, frames,
                       lastHandPos, sample, prevHand, emitted, cameraVars, placeVars,
                   cardVars, strictVars, threadVars>>

\* lines 765-773, 875-877: a theme change makes a new config, and every
\* population's useMemo recomputes
ChangeTheme ==
    /\ foliage' \in FoliageData(foliage.inst[1].currentPos)
    /\ photos' \in RenderPhotos(photos, sceneState, nPhotos, nPhotos > 0)
    /\ lights' \in LightData
    /\ lastDelta' = NoDelta
    /\ lastOp' = "theme"
    /\ UNCHANGED <<controlsAutoRotate, shakeVars, loopVars,
                   sceneState, cameraSpeed, aiStatus, nPhotos, frames,
                   lastHandPos, sample, prevHand, emitted, cameraVars, placeVars,
                   cardVars, strictVars, threadVars>>

\* one rendered frame: the useFrame callbacks of the three populations
\* (lines 113-146, 266-295, 351-367) with the same delta
Frame ==
    \E delta \in Deltas :
        /\ frames < MaxFrames
        /\ frames' = frames + 1
        /\ foliage' = Animate(foliage, sceneState, FoliageFactor(delta))
        /\ photos' = Animate(photos, sceneState, PhotoFactor(delta))
        /\ lights' = Animate(lights, sceneState, LightFactor(delta))
        /\ lastDelta' = <<delta>>
        /\ lastOp' = "frame"
        /\ UNCHANGED <<controlsAutoRotate, shakeVars, loopVars,
                       sceneState, cameraSpeed, aiStatus, nPhotos,
                       lastHandPos, sample, prevHand, emitted, cameraVars, placeVars,
                   cardVars, strictVars, threadVars>>

InitAnim ==
    /\ sceneState = "FORMED"
    /\ cameraSpeed = ZeroSpeed
    /\ controlsAutoRotate = autoRotate
    /\ ShakeIdle
    /\ LoopIdle
    /\ aiStatus = "INITIALIZING..."
    /\ nPhotos = 0
    /\ GestureIdle
    /\ CameraIdle
    /\ foliage \in FoliageData(0)
    /\ photos \in PhotoData(0)
    /\ lights \in LightData
    /\ frames = 0
    /\ lastDelta = NoDelta
    /\ PlaceIdle
    /\ CardIdle
    /\ StrictIdle
    /\ ThreadIdle

NextAnim == Frame \/ ToggleButton \/ OnGesture \/ HandleUpload \/ ChangeTheme

SpecAnim == InitAnim /\ [][NextAnim]_vars

Populations == <<foliage, photos, lights>>
PopulationsNext == <<foliage', photos', lights'>>
Factors(delta) == <<FoliageFactor(delta), PhotoFactor(delta), LightFactor(delta)>>

\* every lerp of a run is exact in the fixed-point representation
LerpExact ==
    \A k \in 1..3 : \A i \in DOMAIN Populations[k].inst : \A delta \in Deltas :
        frames < MaxFrames =>
            LET inst == Populations[k].inst[i]
                f == Factors(delta)[k]
            IN  \A t \in {inst.targetPos, inst.chaosPos} :
                    ((t - inst.currentPos) * f[1]) % f[2] = 0

\* position and target of instance i of population k, before and after a step
CurPos(pops, k, i) == pops[k].inst[i].currentPos
Dist(a, b) == Abs(a - b)
Between(a, x, b) == (a <= x /\ x <= b) \/ (b <= x /\ x <= a)

(* C5: over mode toggles and frames without a configuration change, the
   currentPosition of every instance changes only by one lerp step toward the
   active target: a toggle leaves it where it is, and it is never reset to a
   chaos position. *)
C5_Continuity ==
    [][(lastOp' \in {"toggle", "onGesture", "frame"}) =>
          \A k \in 1..3 :
              /\ DOMAIN PopulationsNext[k].inst = DOMAIN Populations[k].inst
              /\ \A i \in DOMAIN Populations[k].inst :
                    \/ CurPos(PopulationsNext, k, i) = CurPos(Populations, k, i)
                    \/ /\ lastOp' = "frame"
                       /\ CurPos(PopulationsNext, k, i) =
                            Lerp(CurPos(Populations, k, i),
                                 ActiveTarget(sceneState, Populations[k].inst[i]),
                                 Factors(lastDelta'[1])[k])]_vars

(* C26: a frame update of any population, in either mode, writes only the
   live fields of its instances: every instance's chaosPosition and
   targetPosition, the size of the population, the number of photos and
   SceneMode are the same after the frame as before it. *)
C26_FrameWritesLiveOnly ==
    [][lastOp' = "frame" =>
          /\ sceneState' = sceneState
          /\ nPhotos' = nPhotos
          /\ \A k \in 1..3 :
                /\ PopulationsNext[k].count = Populations[k].count
                /\ DOMAIN PopulationsNext[k].inst = DOMAIN Populations[k].inst
                /\ \A i \in DOMAIN Populations[k].inst :
                      /\ PopulationsNext[k].inst[i].chaosPos = Populations[k].inst[i].chaosPos
                      /\ PopulationsNext[k].inst[i].targetPos = Populations[k].inst[i].targetPos]_vars

\* after a frame in FORMED mode a photo ornament has left its chaosPosition
C26_Witness ==
    /\ lastOp = "frame"
    /\ sceneState = "FORMED"
    /\ photos.inst # NoInstance
    /\ photos.inst[1].currentPos # photos.inst[1].chaosPos
    /\ lights.inst[1].currentPos # lights.inst[1].chaosPos

(* C6 as stated: the size of every population is the same in both modes:
   foliage 500, lights 200, photo ornaments min(50, number of photos). *)
C6_SizeIgnoresMode ==
    /\ foliage.count = 500
    /\ lights.count = 200
    /\ photos.count = Min(50, nPhotos)

(* C6 as amended: foliage 500 and lights 200 in both modes; photo ornaments
   min(50, number of photos) in FORMED and the number of photos in CHAOS; a
   mode change never rebuilds foliage or lights, and rebuilds the photo
   ornaments only when there are more than 50 photos. *)
C6_SizePerMode ==
    /\ [](/\ foliage.count = 500
          /\ lights.count = 200
          /\ photos.count = IF sceneState = "FORMED" THEN Min(50, nPhotos) ELSE nPhotos)
    /\ [][sceneState' # sceneState =>
            /\ foliage' = foliage
            /\ lights' = lights
            /\ nPhotos <= 50 => photos' = photos]_vars

\* 51 photos shown in CHAOS
C6_Witness ==
    /\ sceneState = "CHAOS"
    /\ nPhotos = 51
    /\ photos.count = 51
    /\ lastOp \in {"toggle", "onGesture"}

(* C7: in every frame update, for any delta >= 0, the new currentPosition of
   every instance lies on the segment from the old currentPosition to the
   active target (the factor is clamped to [0, 1]; no overshoot). *)
C7_NoOvershoot ==
    [][lastOp' = "frame" =>
          \A k \in 1..3 : \A i \in DOMAIN Populations[k].inst :
              Between(CurPos(Populations, k, i),
                      CurPos(PopulationsNext, k, i),
                      ActiveTarget(sceneState, Populations[k].inst[i]))]_vars

(* C8: with the mode fixed and the frame update repeated with one fixed
   delta > 0, the distance from currentPosition to the target strictly
   decreases at every step while it is not zero. *)
C8_StrictDecrease ==
    [][(/\ lastOp' = "frame"
        /\ lastDelta # NoDelta
        /\ lastDelta' = lastDelta
        /\ lastDelta[1] > 0) =>
          \A k \in 1..3 : \A i \in DOMAIN Populations[k].inst :
              LET t == ActiveTarget(sceneState, Populations[k].inst[i])
              IN  Dist(CurPos(Populations, k, i), t) # 0 =>
                     Dist(CurPos(PopulationsNext, k, i), t)
                        < Dist(CurPos(Populations, k, i), t)]_vars

(***************************************************************************)
(* The placement loops: OrnamentTree (lines 64-108, candidates from        *)
(* getTreePosition, lines 37-44) and PhotoOrnaments.data (lines 178-264).  *)
(* One step of the model is one attempt, or the placement of one point.    *)
(* A value of Math.random() is a fraction with a fixed denominator (16 for *)
(* a height, 4 for an angle, 200 for the surface bias), drawn from the few *)
(* values for which the square root, the power and the cosine are          *)
(* rational.                                                               *)
(***************************************************************************)
Unit == 66 * 20
TreeHeight == 28 * Unit
TreeRadius == 12 * Unit
\* MIN_DISTANCE = 2.0 (line 65) and minDistance = 2.5 (line 181), squared
MIN_DISTANCE_SQ == (2 * Unit) * (2 * Unit)
minDistanceSq == ((5 * Unit) \div 2) * ((5 * Unit) \div 2)
\* minDist = 1000 (line 218): 1000 world units squared is outside the integer
\* range; this is above every squared distance between two points of the scene
FarSq == 2000 * 1000 * 1000
FoliageAttempts == 50
PhotoAttempts == 20

\* the number of points one construction places in this specification
PlaceCount == 3

\* Math.cos and Math.sin of Math.random() * Math.PI * 2 for random = q / 4
Cos4(q) == CASE q = 0 -> 1 [] q = 1 -> 0 [] q = 2 -> 0 - 1 [] q = 3 -> 0
Sin4(q) == CASE q = 0 -> 0 [] q = 1 -> 1 [] q = 2 -> 0 [] q = 3 -> 0 - 1
\* 20 * Math.sqrt(0.5 + 0.5 * random) for random = u / 200
Sqrt20(u) == CHOOSE s \in 0..20 : s * s = 200 + u
\* 64 * Math.pow(random, 1.5) for random = k / 16
Pow15(k) == CHOOSE p \in 0..64 : p * p = k * k * k

\* lines 37-44, for the three values rnd.h / 16, rnd.theta / 4, rnd.r / 200
\* of Math.random()
getTreePosition(treeHeight, treeRadius, rnd) ==
    LET h == treeHeight
        rBase == treeRadius
        y == (rnd.h * h) \div 16 - h \div 2
        \* rBase * (1 - normalizedY), normalizedY = (y + h / 2) / h
        currentRadius == rBase - (rBase * (y + h \div 2)) \div h
        r == (currentRadius * Sqrt20(rnd.r)) \div 20
    IN  <<r * Cos4(rnd.theta), y, r * Sin4(rnd.theta)>>

\* lines 194-215 with line 213 as r = currentRadius
candidatePos_NoOffset(treeHeight, treeRadius, rnd) ==
    LET h == treeHeight
        minY == 0 - (h * 10) \div 22
        maxY == h \div 3
        y == minY + ((maxY - minY) * Pow15(rnd.h)) \div 64
        rBase == treeRadius
        currentRadius == rBase - (rBase * (y + h \div 2)) \div h
        r == currentRadius
    IN  <<r * Cos4(rnd.theta), y, r * Sin4(rnd.theta)>>

\* lines 194-215: candidatePos, for the values rnd.h / 16 and rnd.theta / 4
candidatePos(treeHeight, treeRadius, rnd) ==
    LET h == treeHeight
        minY == 0 - (h * 10) \div 22
        maxY == h \div 3
        y == minY + ((maxY - minY) * Pow15(rnd.h)) \div 64
        rBase == treeRadius
        currentRadius == rBase - (rBase * (y + h \div 2)) \div h
        r == currentRadius + Unit \div 2
    IN  <<r * Cos4(rnd.theta), y, r * Sin4(rnd.theta)>>

\* lines 338-344: the targetPos of a light, for the values rnd.h / 16 and
\* rnd.theta / 4
lightTargetPos(treeHeight, treeRadius, rnd) ==
    LET h == treeHeight
        y == (rnd.h * h) \div 16 - h \div 2
        rBase == treeRadius
        currentRadius == rBase - (rBase * (y + h \div 2)) \div h
        r == currentRadius + Unit \div 5
    IN  <<r * Cos4(rnd.theta), y, r * Sin4(rnd.theta)>>

\* the draws of this specification
FoliageDraws == {[h |-> 12, theta |-> 0, r |-> 25],
                 [h |-> 12, theta |-> 0, r |-> 56],
                 [h |-> 0, theta |-> 2, r |-> 25]}
PhotoDraws == {[h |-> 0, theta |-> 0], [h |-> 1, theta |-> 0], [h |-> 4, theta |-> 2]}
LightDraws == {[h |-> 0, theta |-> 1], [h |-> 8, theta |-> 2], [h |-> 15, theta |-> 3]}

\* dx * dx + dy * dy + dz * dz (lines 76-79); distanceTo squared (line 221)
DistSq(a, b) ==
    (a[1] - b[1]) * (a[1] - b[1]) + (a[2] - b[2]) * (a[2] - b[2])
        + (a[3] - b[3]) * (a[3] - b[3])

\* lines 74-83: valid, for the candidate c
IsValid_LastOnly(c, placed) ==
    placed = <<>> \/ ~(DistSq(c, placed[Len(placed)]) < MIN_DISTANCE_SQ)

IsValid(c, placed) ==
    \A k \in 1..Len(placed) : ~(DistSq(c, placed[k]) < MIN_DISTANCE_SQ)

\* lines 218-226: minDist (squared), for the candidate c
RECURSIVE MinDistFrom(_, _, _, _)
MinDistFrom(c, positions, k, m) ==
    IF k > Len(positions) THEN m
    ELSE MinDistFrom(c, positions, k + 1,
                     IF DistSq(c, positions[k]) < m THEN DistSq(c, positions[k]) ELSE m)
MinDistSq(c, positions) == MinDistFrom(c, positions, 1, FarSq)

\* line 228: the test that accepts a candidate at once
GoodSpot(minDist) == minDist > minDistanceSq

\* line 235 always true: the last rejected candidate is kept as bestPos
BetterSpot_Last(minDist, best) == TRUE

\* line 235: the test that replaces bestPos
BetterSpot(minDist, best) == minDist > best

\* lines 72-85: one iteration of the while loop
FoliageAttempt ==
    /\ builder = "foliage" /\ pc = "attempt"
    /\ ~valid /\ attempts < FoliageAttempts
    /\ \E rnd \in FoliageDraws :
          /\ cand' = getTreePosition(TreeHeight, TreeRadius, rnd)
          /\ valid' = IsValid(cand', placedPositions)
    /\ attempts' = attempts + 1
    /\ lastOp' = "attempt"
    /\ UNCHANGED <<controlsAutoRotate, shakeVars, loopVars,
                   sceneState, cameraSpeed, aiStatus, nPhotos,
                   lastHandPos, sample, prevHand, emitted, cameraVars, animVars,
                   builder, pc, idx, targetPos, bestPos, maxDistToClosest,
                   placedPositions, targets, accepted, tried,
                   cardVars, strictVars, threadVars>>

\* the start of the next iteration of the for loop (lines 68-70, 186-188), or its end
NextPoint(i) ==
    /\ idx' = i
    /\ attempts' = 0
    /\ valid' = FALSE
    /\ targetPos' = <<0, 0, 0>>
    /\ bestPos' = <<0, 0, 0>>
    /\ maxDistToClosest' = 0 - 1
    /\ tried' = {}
    /\ pc' = IF i < PlaceCount THEN "attempt" ELSE "done"

\* lines 90-99 without the else branch: an exhausted point is dropped
FoliagePlace_DropFallback ==
    /\ builder = "foliage" /\ pc = "attempt"
    /\ ~(~valid /\ attempts < FoliageAttempts)
    /\ IF valid
       THEN /\ placedPositions' = Append(placedPositions, cand)
            /\ targets' = Append(targets, cand)
            /\ accepted' = Append(accepted, valid)
       ELSE UNCHANGED <<placedPositions, targets, accepted>>
    /\ NextPoint(idx + 1)
    /\ lastOp' = "place"
    /\ UNCHANGED <<controlsAutoRotate, shakeVars, loopVars,
                   sceneState, cameraSpeed, aiStatus, nPhotos,
                   lastHandPos, sample, prevHand, emitted, cameraVars, animVars,
                   builder, cand,
                   cardVars, strictVars, threadVars>>

\* lines 87-99: after the while loop, the point is placed
FoliagePlace ==
    /\ builder = "foliage" /\ pc = "attempt"
    /\ ~(~valid /\ attempts < FoliageAttempts)
    /\ IF valid
       THEN placedPositions' = Append(placedPositions, cand)
       ELSE placedPositions' = Append(placedPositions, cand)
    /\ targets' = Append(targets, cand)
    /\ accepted' = Append(accepted, valid)
    /\ NextPoint(idx + 1)
    /\ lastOp' = "place"
    /\ UNCHANGED <<controlsAutoRotate, shakeVars, loopVars,
                   sceneState, cameraSpeed, aiStatus, nPhotos,
                   lastHandPos, sample, prevHand, emitted, cameraVars, animVars,
                   builder, cand,
                   cardVars, strictVars, threadVars>>

\* lines 192-238: one iteration of the attempt loop
PhotoAttempt ==
    /\ builder = "photos" /\ pc = "attempt"
    /\ ~valid /\ attempts < PhotoAttempts
    /\ \E rnd \in PhotoDraws :
          /\ cand' = candidatePos(TreeHeight, TreeRadius, rnd)
          /\ LET minDist == MinDistSq(cand', placedPositions)
             IN  IF GoodSpot(minDist)
                 THEN /\ targetPos' = cand'
                      /\ valid' = TRUE
                      /\ UNCHANGED <<bestPos, maxDistToClosest>>
                 ELSE /\ UNCHANGED <<targetPos, valid>>
                      /\ IF BetterSpot(minDist, maxDistToClosest)
                         THEN /\ maxDistToClosest' = minDist
                              /\ bestPos' = cand'
                         ELSE UNCHANGED <<bestPos, maxDistToClosest>>
    /\ attempts' = attempts + 1
    /\ tried' = tried \cup {cand'}
    /\ lastOp' = "attempt"
    /\ UNCHANGED <<controlsAutoRotate, shakeVars, loopVars,
                   sceneState, cameraSpeed, aiStatus, nPhotos,
                   lastHandPos, sample, prevHand, emitted, cameraVars, animVars,
                   builder, pc, idx, placedPositions, targets, accepted,
                   cardVars, strictVars, threadVars>>

\* lines 240-261: after the attempt loop, the point is placed
PhotoPlace ==
    /\ builder = "photos" /\ pc = "attempt"
    /\ valid \/ ~(attempts < PhotoAttempts)
    /\ LET final == IF targetPos = <<0, 0, 0>> THEN bestPos ELSE targetPos
       IN  /\ placedPositions' = Append(placedPositions, final)
           /\ targets' = Append(targets, final)
    /\ accepted' = Append(accepted, valid)
    /\ NextPoint(idx + 1)
    /\ lastOp' = "place"
    /\ UNCHANGED <<controlsAutoRotate, shakeVars, loopVars,
                   sceneState, cameraSpeed, aiStatus, nPhotos,
                   lastHandPos, sample, prevHand, emitted, cameraVars, animVars,
                   builder, cand,
                   cardVars, strictVars, threadVars>>

\* lines 336-347: one element of FairyLights.data
LightPlace ==
    /\ builder = "lights" /\ pc = "attempt"
    /\ \E rnd \in LightDraws :
          /\ cand' = lightTargetPos(TreeHeight, TreeRadius, rnd)
          /\ targets' = Append(targets, cand')
    /\ idx' = idx + 1
    /\ pc' = IF idx + 1 < PlaceCount THEN "attempt" ELSE "done"
    /\ lastOp' = "place"
    /\ UNCHANGED <<controlsAutoRotate, shakeVars, loopVars,
                   sceneState, cameraSpeed, aiStatus, nPhotos,
                   lastHandPos, sample, prevHand, emitted, cameraVars, animVars,
                   builder, attempts, valid, targetPos, bestPos, maxDistToClosest,
                   placedPositions, accepted, tried,
                   cardVars, strictVars, threadVars>>

InitPlace ==
    /\ sceneState = "FORMED"
    /\ cameraSpeed = ZeroSpeed
    /\ controlsAutoRotate = autoRotate
    /\ ShakeIdle
    /\ LoopIdle
    /\ aiStatus = "INITIALIZING..."
    /\ nPhotos = 0
    /\ GestureIdle
    /\ CameraIdle
    /\ AnimIdle
    /\ builder \in {"foliage", "photos", "lights"}
    /\ pc = (IF 0 < PlaceCount THEN "attempt" ELSE "done")
    /\ idx = 0
    /\ attempts = 0
    /\ cand = <<0, 0, 0>>
    /\ valid = FALSE
    /\ targetPos = <<0, 0, 0>>
    /\ bestPos = <<0, 0, 0>>
    /\ maxDistToClosest = 0 - 1
    /\ placedPositions = <<>>
    /\ targets = <<>>
    /\ accepted = <<>>
    /\ tried = {}
    /\ CardIdle
    /\ StrictIdle
    /\ ThreadIdle

NextPlace == FoliageAttempt \/ FoliagePlace \/ PhotoAttempt \/ PhotoPlace \/ LightPlace

SpecPlace == InitPlace /\ [][NextPlace]_vars

(* C25: the target of a photo ornament is the first candidate whose minimum
   distance to the ornaments already placed exceeds 2.5, when one of the up
   to 20 candidates has one; otherwise all 20 candidates were generated and
   the target is one of them whose minimum distance to the placed ornaments
   is the greatest; the first ornament is accepted on its first attempt. *)
C25_PhotoTarget ==
    [][(builder = "photos" /\ lastOp' = "place") =>
          LET final == targets'[Len(targets')]
              far(c) == MinDistSq(c, placedPositions) > 3300 * 3300
          IN  /\ placedPositions' = Append(placedPositions, final)
              /\ final \in tried
              /\ IF \E c \in tried : far(c)
                 THEN /\ final = cand
                      /\ far(final)
                      /\ \A c \in tried \ {final} : ~far(c)
                      /\ attempts <= 20
                 ELSE /\ attempts = 20
                      /\ \A c \in tried :
                            MinDistSq(c, placedPositions) <= MinDistSq(final, placedPositions)
              /\ placedPositions = <<>> => (attempts = 1 /\ final = cand)]_vars

\* the third ornament took the fallback: of two rejected candidates, the one
\* farther from the placed ornaments
C25_Witness ==
    /\ builder = "photos"
    /\ lastOp = "place"
    /\ Len(placedPositions) = 3
    /\ accepted = <<TRUE, TRUE, FALSE>>
    /\ placedPositions[3] # placedPositions[1]
    /\ placedPositions[3] # placedPositions[2]

(* C9: the foliage placement loop produces exactly count target positions:
   a point whose 50 attempts all failed the distance test is placed at its
   last candidate, so after each point the number placed equals the number
   of points handled, and the finished loop has placed count of them. *)
C9_CountKept ==
    builder = "foliage" =>
        /\ Len(targets) = idx
        /\ Len(placedPositions) = idx
        /\ pc = "done" => Len(targets) = PlaceCount
        /\ (lastOp = "place" /\ ~accepted[idx]) => targets[idx] = cand

\* the loop finished and one of its points was placed by the fallback
C9_Witness ==
    /\ builder = "foliage"
    /\ pc = "done"
    /\ Len(targets) = PlaceCount
    /\ \E k \in 1..Len(accepted) : ~accepted[k]

(* C10: for every pair of placed points of which the later was accepted by
   the distance test, the distance is at least minDistance (2.0 for foliage,
   2.5 for photo ornaments), also when the earlier was placed by fallback. *)
C10_MinDistance ==
    \A j \in 1..Len(placedPositions) : \A k \in 1..(j - 1) :
        accepted[j] =>
            DistSq(placedPositions[j], placedPositions[k])
                >= (IF builder = "foliage" THEN (2 * 1320) * (2 * 1320)
                                           ELSE 3300 * 3300)

\* a point accepted by the test after two earlier points, the first placed by
\* fallback
C10_Witness ==
    /\ Len(placedPositions) >= 3
    /\ accepted[3]
    /\ ~accepted[2]

\* the squared radial distance of a point from the axis of the tree
RadialSq(p) == p[1] * p[1] + p[3] * p[3]
\* radius * (1 - normalizedHeight) at height y, for height 28 and radius 12
SurfaceRadius(y) == (12 * 1320 * (14 * 1320 - y)) \div (28 * 1320)

(* C11: every placed target point lies inside the cone bounds: a foliage
   point has its height in [-14, 14] and a radial distance of at most
   12 * (1 - normalizedHeight), and so lies in the cylinder of radius 12 and
   half-height 14; a photo ornament's radial distance is that surface radius
   plus 0.5, a light's is the surface radius plus 0.2. *)
C11_ConeBounds ==
    \A k \in 1..Len(targets) :
        LET p == targets[k]
            s == SurfaceRadius(p[2])
        IN  /\ p[2] >= 0 - 14 * 1320 /\ p[2] <= 14 * 1320
            /\ builder = "foliage" =>
                  /\ RadialSq(p) <= s * s
                  /\ RadialSq(p) <= (12 * 1320) * (12 * 1320)
            /\ builder = "photos" => RadialSq(p) = (s + 660) * (s + 660)
            /\ builder = "lights" => RadialSq(p) = (s + 264) * (s + 264)

\* the photo ornaments are all placed, one of them at the best of its 20
\* rejected candidates
C11_Witness ==
    /\ builder = "photos"
    /\ pc = "done"
    /\ Len(targets) = PlaceCount
    /\ \E k \in 1..Len(accepted) : ~accepted[k]

(***************************************************************************)
(* The Shake to Snow effect of GrandTreeApp (lines 723-762), the star's    *)
(* click (lines 460-463, 810), and the clock that fires the expiry timer.  *)
(* Time is in seconds.  A timer is identified by its deadline.             *)
(***************************************************************************)
ShakeThreshold == 25
SnowSeconds == 5
MaxTime == 6

\* accelerationIncludingGravity of the events of this specification
AccelValues == {[x |-> 0, y |-> 0, z |-> 0],
                [x |-> 10, y |-> 0 - 10, z |-> 5],
                [x |-> 10, y |-> 0 - 10, z |-> 6]}
\* an event: <<>> when accelerationIncludingGravity is null, else its x, y, z,
\* each <<>> (null) or <<value>>
MotionEvents ==
    {<<>>, <<[x |-> <<>>, y |-> <<0>>, z |-> <<0>>]>>}
        \cup {<<[x |-> <<a.x>>, y |-> <<a.y>>, z |-> <<a.z>>]>> : a \in AccelValues}
\* the results the recognition loop processes in this specification
FewResults ==
    {NoSample,
     [gestures |-> <<[categoryName |-> "Open_Palm", score |-> 50]>>,
      landmarks |-> <<[x |-> 5000, y |-> 5000]>>]}

\* lines 730-732: the event carries a complete sample
ValidMotion(e) == e # <<>> /\ e[1].x # <<>> /\ e[1].y # <<>> /\ e[1].z # <<>>
Accel(e) == [x |-> e[1].x[1], y |-> e[1].y[1], z |-> e[1].z[1]]

\* lines 735-740: deltaX + deltaY + deltaZ
ShakeSum(a, last) == Abs(a.x - last.x) + Abs(a.y - last.y) + Abs(a.z - last.z)

\* line 740
IsShake_Inclusive(sum) == sum >= ShakeThreshold

IsShake(sum) == sum > ShakeThreshold

\* clearTimeout(handle) on the pending timers
ClearTimeout_Noop(timers, handle) == timers

ClearTimeout(timers, handle) ==
    IF handle = <<>> THEN timers ELSE timers \ {handle[1]}

\* lines 729-749: handleMotion
HandleMotion ==
    /\ listening
    /\ \E e \in MotionEvents :
          /\ motion' = e
          /\ IF ~ValidMotion(e)
             THEN /\ shook' = <<>>
                  /\ UNCHANGED <<isSnowing, lastAccel, timeout, pendingTimers, shakeAt>>
             ELSE /\ IF lastAccel # <<>>
                     THEN /\ shook' = <<ShakeSum(Accel(e), lastAccel[1])>>
                          /\ IF IsShake(ShakeSum(Accel(e), lastAccel[1]))
                             THEN /\ isSnowing' = TRUE
                                  /\ pendingTimers' =
                                        ClearTimeout(pendingTimers, timeout)
                                            \cup {now + SnowSeconds}
                                  /\ timeout' = <<now + SnowSeconds>>
                                  /\ shakeAt' = <<[at |-> now,
                                                   refreshed |-> pendingTimers # {}]>>
                             ELSE UNCHANGED <<isSnowing, timeout, pendingTimers, shakeAt>>
                     ELSE /\ shook' = <<>>
                          /\ UNCHANGED <<isSnowing, timeout, pendingTimers, shakeAt>>
                  /\ lastAccel' = <<Accel(e)>>
    /\ lastOp' = "motion"
    /\ UNCHANGED <<sceneState, cameraSpeed, aiStatus, nPhotos, controlsAutoRotate,
                   lastHandPos, sample, prevHand, emitted, now, listening,
                   cameraVars, animVars, placeVars, loopVars,
                   cardVars, strictVars, threadVars>>

\* line 744: the callback of an expiry timer that is due
SnowExpire ==
    /\ \E d \in pendingTimers :
          /\ d <= now
          /\ pendingTimers' = pendingTimers \ {d}
    /\ isSnowing' = FALSE
    /\ lastOp' = "expire"
    /\ UNCHANGED <<sceneState, cameraSpeed, aiStatus, nPhotos, controlsAutoRotate,
                   lastHandPos, sample, prevHand, emitted,
                   lastAccel, timeout, now, listening, motion, shakeAt, shook,
                   cameraVars, animVars, placeVars, loopVars,
                   cardVars, strictVars, threadVars>>

\* one second passes; a timer fires before time passes its deadline
Tick ==
    /\ now < MaxTime
    /\ \A d \in pendingTimers : d > now
    /\ now' = now + 1
    /\ lastOp' = "tick"
    /\ UNCHANGED <<sceneState, cameraSpeed, aiStatus, nPhotos, controlsAutoRotate,
                   lastHandPos, sample, prevHand, emitted,
                   isSnowing, lastAccel, timeout, pendingTimers, listening, motion, shakeAt, shook,
                   cameraVars, animVars, placeVars, loopVars,
                   cardVars, strictVars, threadVars>>

\* line 462: the click on the star reaches onToggleSnow
StarToggles_AnyMode(state) == TRUE

StarToggles(state) == state = "FORMED"

\* lines 460-463 and 810: a click on the star
StarClick ==
    /\ listening
    /\ isSnowing' = (IF StarToggles(sceneState) THEN ~isSnowing ELSE isSnowing)
    /\ lastOp' = "starClick"
    /\ UNCHANGED <<sceneState, cameraSpeed, aiStatus, nPhotos, controlsAutoRotate,
                   lastHandPos, sample, prevHand, emitted,
                   lastAccel, timeout, pendingTimers, now, listening, motion, shakeAt, shook,
                   cameraVars, animVars, placeVars, loopVars,
                   cardVars, strictVars, threadVars>>

\* lines 755-760 without the clearTimeout
ShakeCleanup_KeepTimer ==
    /\ listening
    /\ listening' = FALSE
    /\ lastOp' = "teardown"
    /\ UNCHANGED <<sceneState, cameraSpeed, aiStatus, nPhotos, controlsAutoRotate,
                   lastHandPos, sample, prevHand, emitted,
                   isSnowing, lastAccel, timeout, pendingTimers, now, motion, shakeAt, shook,
                   cameraVars, animVars, placeVars, loopVars,
                   cardVars, strictVars, threadVars>>

\* lines 755-760: the cleanup of the effect, when GrandTreeApp is torn down
ShakeCleanup ==
    /\ listening
    /\ listening' = FALSE
    /\ pendingTimers' = ClearTimeout(pendingTimers, timeout)
    /\ lastOp' = "teardown"
    /\ UNCHANGED <<sceneState, cameraSpeed, aiStatus, nPhotos, controlsAutoRotate,
                   lastHandPos, sample, prevHand, emitted,
                   isSnowing, lastAccel, timeout, now, motion, shakeAt, shook,
                   cameraVars, animVars, placeVars, loopVars,
                   cardVars, strictVars, threadVars>>

\* the mode button and the recognition loop while the application is mounted
ShakeModeButton == listening /\ ToggleButtonG
ShakeSample ==
    /\ listening
    /\ \E r \in FewResults :
          /\ ProcessSample(r)
          /\ UNCHANGED <<shakeVars, loopVars, nPhotos, cameraVars, animVars, placeVars,
                   cardVars, strictVars, threadVars>>

InitShake ==
    /\ sceneState = "FORMED"
    /\ cameraSpeed = ZeroSpeed
    /\ controlsAutoRotate = autoRotate
    /\ aiStatus = "AI READY: SHOW HAND"
    /\ nPhotos = 0
    /\ GestureIdle
    /\ CameraIdle
    /\ AnimIdle
    /\ PlaceIdle
    /\ ShakeIdle
    /\ LoopIdle
    /\ CardIdle
    /\ StrictIdle
    /\ ThreadIdle

NextShake ==
    \/ HandleMotion
    \/ SnowExpire
    \/ Tick
    \/ StarClick
    \/ ShakeCleanup
    \/ ShakeModeButton
    \/ ShakeSample

SpecShake == InitShake /\ [][NextShake]_vars

(* C12: a device-motion sample sets the snow flag exactly when a previous
   valid sample exists and |dx| + |dy| + |dz| against it is above 25; the
   first valid sample and a sum of at most 25 leave the flag and the timers
   alone; every valid sample becomes the previous sample, and an event
   without a complete sample changes nothing. *)
C12_ShakeTrigger ==
    [][lastOp' = "motion" =>
          LET e == motion'
              complete == e # <<>> /\ e[1].x # <<>> /\ e[1].y # <<>> /\ e[1].z # <<>>
          IN  IF complete
              THEN LET x == e[1].x[1]
                       y == e[1].y[1]
                       z == e[1].z[1]
                       trigger ==
                           /\ lastAccel # <<>>
                           /\ Abs(x - lastAccel[1].x) + Abs(y - lastAccel[1].y)
                                 + Abs(z - lastAccel[1].z) > 25
                   IN  /\ lastAccel' = <<[x |-> x, y |-> y, z |-> z]>>
                       /\ trigger => isSnowing' = TRUE
                       /\ ~trigger => (isSnowing' = isSnowing
                                         /\ pendingTimers' = pendingTimers)
              ELSE /\ lastAccel' = lastAccel
                   /\ isSnowing' = isSnowing
                   /\ pendingTimers' = pendingTimers]_vars

\* a sample whose sum against the previous one is exactly 25 left the flag unset
C12_Witness ==
    /\ lastOp = "motion"
    /\ shook = <<25>>
    /\ ~isSnowing

(* C13: at most one expiry timer is pending at any time; an expiry fires
   only 5 seconds after the most recent qualifying shake, and clears the
   flag; the timer of the most recent shake is pending until then, and none
   is pending after. *)
C13_TimerRefresh ==
    /\ [](Cardinality(pendingTimers) <= 1)
    /\ []((listening /\ shakeAt # <<>>) =>
             pendingTimers = (IF now < shakeAt[1].at + 5 THEN {shakeAt[1].at + 5}
                              ELSE pendingTimers \cap {now}))
    /\ [][lastOp' = "expire" =>
            /\ shakeAt # <<>>
            /\ now = shakeAt[1].at + 5
            /\ isSnowing' = FALSE
            /\ pendingTimers' = {}]_vars

\* the flag was cleared 5 seconds after a shake that refreshed an earlier
\* shake's pending timer
C13_Witness ==
    /\ lastOp = "expire"
    /\ shakeAt # <<>>
    /\ shakeAt[1].refreshed
    /\ shakeAt[1].at > 0
    /\ now = shakeAt[1].at + 5
    /\ ~isSnowing

(* C14 as stated: each shared value has one writer: the snow flag changes
   only in the shake detector's handleMotion and expiry timer,
   lastHandPosition only in the gesture processor, the mode only by a mode
   command (a recognised gesture or the mode button). *)
C14_SingleWriter ==
    [][/\ isSnowing' # isSnowing => lastOp' \in {"motion", "expire"}
       /\ lastHandPos' # lastHandPos => lastOp' = "predictWebcam"
       /\ sceneState' # sceneState => lastOp' \in {"predictWebcam", "toggle"}]_vars

(* C14 as amended: the snow flag has two writers, the shake detector
   (handleMotion and its expiry timer) and the click on the star, which
   toggles it while the mode is FORMED; lastHandPosition changes only in the
   gesture processor and the mode only by a mode command. *)
C14_Writers ==
    [][/\ isSnowing' # isSnowing => lastOp' \in {"motion", "expire", "starClick"}
       /\ (lastOp' = "starClick" /\ sceneState = "FORMED") => isSnowing' = ~isSnowing
       /\ (lastOp' = "starClick" /\ sceneState # "FORMED") => isSnowing' = isSnowing
       /\ lastHandPos' # lastHandPos => lastOp' = "predictWebcam"
       /\ sceneState' # sceneState => lastOp' \in {"predictWebcam", "toggle"}]_vars

\* the star's click set the flag although no shake ever happened
C14_Witness ==
    /\ lastOp = "starClick"
    /\ isSnowing
    /\ shakeAt = <<>>
    /\ pendingTimers = {}

(* C16: the cleanup of the shake effect removes the listener and clears the
   pending expiry timer: after it no timer is pending, no motion event is
   handled and the snow flag is never written. *)
C16_Disposed ==
    /\ [](~listening => pendingTimers = {})
    /\ [][~listening => (isSnowing' = isSnowing /\ lastOp' \notin {"motion", "expire"})]_vars

\* the cleanup ran while the timer of the last shake was still pending
C16_Witness ==
    /\ lastOp = "teardown"
    /\ ~listening
    /\ isSnowing
    /\ timeout # <<>>
    /\ now < timeout[1]
    /\ pendingTimers = {}

(***************************************************************************)
(* The life cycle of GestureController (lines 579-677): the asynchronous   *)
(* setup, the animation-frame loop of predictWebcam, and the cleanup of    *)
(* the effect.  videoRef.current and canvasRef.current belong to the same  *)
(* fragment: React sets both when the view is mounted and clears both when *)
(* it is torn down.  aiStatus is the last string given to onStatus.        *)
(***************************************************************************)
videoRefCurrent == mounted
canvasRefCurrent == mounted

\* the results the loop processes in this specification
LoopResults ==
    {NoSample,
     [gestures |-> <<[categoryName |-> "Open_Palm", score |-> 50]>>,
      landmarks |-> <<[x |-> 5000, y |-> 5000]>>],
     [gestures |-> <<[categoryName |-> "Closed_Fist", score |-> 50]>>,
      landmarks |-> <<[x |-> 5100, y |-> 5000]>>],
     [gestures |-> <<[categoryName |-> "Thumb_Up", score |-> 30]>>,
      landmarks |-> <<>>]}

\* (error as any).message of a failed recognizer creation
ErrorMessages == {"fetch failed"}
AiError(msg) == "AI ERROR: " \o msg

\* lines 583-613: setup, up to its await of getUserMedia
Setup ==
    /\ mounted
    /\ recognizer = "none"
    /\ recognizer' = "loading"
    /\ \E hasMediaDevices \in BOOLEAN :
          IF hasMediaDevices
          THEN /\ camera' = "requesting"
               /\ aiStatus' = "REQUESTING CAMERA..."
          ELSE /\ camera' = "unsupported"
               /\ aiStatus' = "ERROR: CAMERA PERMISSION DENIED"
    /\ lastOp' = "setup"
    /\ UNCHANGED <<sceneState, cameraSpeed, nPhotos, controlsAutoRotate,
                   lastHandPos, sample, prevHand, emitted,
                   mounted, streamLive, srcObject, videoReady, rafPending,
                   cameraVars, animVars, placeVars, shakeVars,
                   cardVars, strictVars, threadVars>>

\* lines 587-597: createFromOptions resolved
RecognizerReady ==
    /\ recognizer = "loading"
    /\ recognizer' = "ready"
    /\ aiStatus' = "AI READY"
    /\ rafPending' = TRUE
    /\ lastOp' = "recognizerReady"
    /\ UNCHANGED <<sceneState, cameraSpeed, nPhotos, controlsAutoRotate,
                   lastHandPos, sample, prevHand, emitted,
                   mounted, camera, streamLive, srcObject, videoReady,
                   cameraVars, animVars, placeVars, shakeVars,
                   cardVars, strictVars, threadVars>>

\* lines 598-601: the wasm files or the model failed to load
RecognizerFailed ==
    /\ recognizer = "loading"
    /\ recognizer' = "failed"
    /\ \E msg \in ErrorMessages : aiStatus' = AiError(msg)
    /\ lastOp' = "recognizerFailed"
    /\ UNCHANGED <<sceneState, cameraSpeed, nPhotos, controlsAutoRotate,
                   lastHandPos, sample, prevHand, emitted,
                   mounted, camera, streamLive, srcObject, videoReady, rafPending,
                   cameraVars, animVars, placeVars, shakeVars,
                   cardVars, strictVars, threadVars>>

\* lines 606-611: getUserMedia resolved with a stream
CameraGranted ==
    /\ camera = "requesting"
    /\ camera' = "granted"
    /\ streamLive' = TRUE
    /\ IF videoRefCurrent
       THEN /\ srcObject' = TRUE
            /\ aiStatus' = "AI READY: SHOW HAND"
       ELSE UNCHANGED <<srcObject, aiStatus>>
    /\ lastOp' = "cameraGranted"
    /\ UNCHANGED <<sceneState, cameraSpeed, nPhotos, controlsAutoRotate,
                   lastHandPos, sample, prevHand, emitted,
                   mounted, recognizer, videoReady, rafPending,
                   cameraVars, animVars, placeVars, shakeVars,
                   cardVars, strictVars, threadVars>>

\* line 606: getUserMedia rejected (permission denied); the await throws out of
\* setup, whose promise nobody handles
CameraDenied ==
    /\ camera = "requesting"
    /\ camera' = "denied"
    /\ lastOp' = "cameraDenied"
    /\ UNCHANGED <<sceneState, cameraSpeed, aiStatus, nPhotos, controlsAutoRotate,
                   lastHandPos, sample, prevHand, emitted,
                   mounted, recognizer, streamLive, srcObject, videoReady, rafPending,
                   cameraVars, animVars, placeVars, shakeVars,
                   cardVars, strictVars, threadVars>>

\* line 609: the playing video reaches readyState 4
VideoLoaded ==
    /\ mounted /\ srcObject /\ streamLive /\ ~videoReady
    /\ videoReady' = TRUE
    /\ lastOp' = "videoLoaded"
    /\ UNCHANGED <<sceneState, cameraSpeed, aiStatus, nPhotos, controlsAutoRotate,
                   lastHandPos, sample, prevHand, emitted,
                   mounted, recognizer, camera, streamLive, srcObject, rafPending,
                   cameraVars, animVars, placeVars, shakeVars,
                   cardVars, strictVars, threadVars>>

\* line 617: the condition of a cycle
CycleReady == recognizer = "ready" /\ videoRefCurrent /\ videoReady

\* lines 616-674: whether a cycle reaches the requestAnimationFrame of line 673;
\* outcome is "skip" (line 617 false), "ok", "throw" (an exception in the try
\* block) or "return" (line 621)
Rescheduled_NoCatch(outcome) == outcome \notin {"return", "throw"}

Rescheduled(outcome) == outcome # "return"

\* lines 616-674: one cycle of predictWebcam, run by a requested animation frame
PredictCycle ==
    /\ rafPending
    /\ IF ~CycleReady
       THEN /\ lastOp' = "cycleSkip"
            /\ rafPending' = Rescheduled("skip")
            /\ UNCHANGED <<sceneState, cameraSpeed, aiStatus, controlsAutoRotate,
                           lastHandPos, sample, prevHand, emitted>>
       ELSE \/ /\ lastOp' = "cycleThrow"
               /\ rafPending' = Rescheduled("throw")
               /\ UNCHANGED <<sceneState, cameraSpeed, aiStatus, controlsAutoRotate,
                              lastHandPos, sample, prevHand, emitted>>
            \/ IF ~canvasRefCurrent
               THEN /\ lastOp' = "cycleReturn"
                    /\ rafPending' = Rescheduled("return")
                    /\ UNCHANGED <<sceneState, cameraSpeed, aiStatus, controlsAutoRotate,
                                   lastHandPos, sample, prevHand, emitted>>
               ELSE /\ \E r \in LoopResults : ProcessSample(r)
                    /\ rafPending' = Rescheduled("ok")
    /\ UNCHANGED <<nPhotos, mounted, recognizer, camera, streamLive, srcObject, videoReady,
                   cameraVars, animVars, placeVars, shakeVars,
                   cardVars, strictVars, threadVars>>

\* the view is torn down: React clears the refs and runs the cleanup of line
\* 676, cancelAnimationFrame(requestRef)
Teardown ==
    /\ mounted
    /\ mounted' = FALSE
    /\ rafPending' = FALSE
    /\ lastOp' = "teardown"
    /\ UNCHANGED <<sceneState, cameraSpeed, aiStatus, nPhotos, controlsAutoRotate,
                   lastHandPos, sample, prevHand, emitted,
                   recognizer, camera, streamLive, srcObject, videoReady,
                   cameraVars, animVars, placeVars, shakeVars,
                   cardVars, strictVars, threadVars>>

\* line 1001: the mode button, while the application is mounted
LoopModeButton == mounted /\ ToggleButtonG

InitLoop ==
    /\ sceneState = "FORMED"
    /\ cameraSpeed = ZeroSpeed
    /\ controlsAutoRotate = autoRotate
    /\ aiStatus = "INITIALIZING..."
    /\ nPhotos = 0
    /\ GestureIdle
    /\ CameraIdle
    /\ AnimIdle
    /\ PlaceIdle
    /\ ShakeIdle
    /\ LoopIdle
    /\ CardIdle
    /\ StrictIdle
    /\ ThreadIdle

NextLoop ==
    \/ Setup
    \/ RecognizerReady
    \/ RecognizerFailed
    \/ CameraGranted
    \/ CameraDenied
    \/ VideoLoaded
    \/ PredictCycle
    \/ Teardown
    \/ LoopModeButton

SpecLoop == InitLoop /\ [][NextLoop]_vars

(* C15: once the view is torn down the sampling loop is stopped and the
   camera stream released, and nothing is emitted any more: no status, no
   mode command, no signal, whatever the order of the teardown and the
   completions of the recognizer creation and getUserMedia. *)
C15_TeardownStops ==
    /\ [](~mounted => (~rafPending /\ ~streamLive))
    /\ [][~mounted => (/\ aiStatus' = aiStatus
                       /\ sceneState' = sceneState
                       /\ cameraSpeed' = cameraSpeed
                       /\ lastOp' # "predictWebcam")]_vars

(* C17: every cycle of the loop run before teardown ends by scheduling the
   next one, also when an exception was raised in it: the exception is
   caught and changes nothing; only the teardown stops a scheduled loop. *)
C17_LoopSurvives ==
    /\ [][(mounted' /\ lastOp' \in {"predictWebcam", "cycleSkip", "cycleThrow", "cycleReturn"})
            => rafPending']_vars
    /\ [][lastOp' = "cycleThrow" =>
            (/\ aiStatus' = aiStatus
             /\ sceneState' = sceneState
             /\ cameraSpeed' = cameraSpeed
             /\ lastHandPos' = lastHandPos)]_vars
    /\ [][(rafPending /\ ~rafPending') => lastOp' = "teardown"]_vars

\* a cycle of the running loop raised an exception and the next cycle is scheduled
C17_Witness ==
    /\ lastOp = "cycleThrow"
    /\ mounted
    /\ recognizer = "ready"
    /\ videoReady
    /\ rafPending

(* C18: a failed recognizer creation or a denied camera permission is
   reported by the status string, and afterwards no mode command and no
   signal is emitted, and the setup is not run again. *)
C18_FailureReported ==
    /\ [](camera = "denied" => aiStatus = "ERROR: CAMERA PERMISSION DENIED")
    /\ [](recognizer = "failed" => \E msg \in {"fetch failed"} : aiStatus = "AI ERROR: " \o msg)
    /\ [][(camera = "denied" \/ recognizer = "failed") =>
            lastOp' \notin {"predictWebcam", "setup"}]_vars

(* C28: once the recognizer initialisation has failed and set an error
   status, no later step of the setup replaces it: in every interleaving of
   the recognizer initialisation and the camera request, the status after a
   failed initialisation stays the error status. *)
C28_ErrorStatusKept ==
    [][(recognizer = "failed" /\ aiStatus \in {AiError(msg) : msg \in ErrorMessages}) =>
          aiStatus' = aiStatus]_vars

(***************************************************************************)
(* The photo list, the ornaments' textures, the detail card and the memos  *)
(* (lines 171, 256, 304, 556, 694-696, 775-795, 1030-1096).  A photo is    *)
(* the number of its upload: URL.createObjectURL returns a fresh URL.      *)
(***************************************************************************)
\* the ornaments that receive the click of an action below
ClickIndices == {0, 24, 25, 49, 50, 51}
MemoTexts == {"", "first snow"}

\* line 782 with the new photos put first
AppendPhotos_Prepend(prev, newPhotos) == newPhotos \o prev

\* line 782: [...prev, ...newPhotos]
AppendPhotos(prev, newPhotos) == prev \o newPhotos

\* line 781: the URLs of k files, created after n earlier ones
NewPhotos(n, k) == [j \in 1..k |-> n + j]

\* line 256: textureIndex of data[i], for textures.length = n
TextureIndex(i, n) == i % n

\* lines 300-304: the indices i of data.map, data having count elements
Ornaments(state, n) == 0..(PhotoCount(state, n) - 1)

\* lines 315, 319: the photo on ornament i
PhotoOnOrnament(list, i) == list[TextureIndex(i, Len(list)) + 1]

\* lines 1056, 1067: the photo and the memo of the card; indices count from 0
CardPhoto(list, sel) ==
    IF sel # <<>> /\ sel[1] < Len(list) THEN <<list[sel[1] + 1]>> ELSE <<>>

\* lines 775-789: handleUpload (the toast of lines 777, 785-787 is not modelled)
CardUpload ==
    \E k \in UploadSizes :
        /\ Len(photoList) + k <= MaxPhotos
        /\ photoList' = AppendPhotos(photoList, NewPhotos(Len(photoList), k))
        /\ nPhotos' = Len(photoList')
        /\ lastOp' = "upload"
        /\ UNCHANGED <<sceneState, cameraSpeed, aiStatus, controlsAutoRotate,
                       lastHandPos, sample, prevHand, emitted,
                       selectedPhotoIndex, memos, clicked,
                       cameraVars, animVars, placeVars, shakeVars, loopVars,
                       strictVars, threadVars>>

\* lines 304, 807: a click on ornament i calls setSelectedPhotoIndex(i)
PhotoClick ==
    \E i \in ClickIndices \cap Ornaments(sceneState, Len(photoList)) :
        /\ Len(photoList) > 0
        /\ selectedPhotoIndex' = <<i>>
        /\ clicked' = <<PhotoOnOrnament(photoList, i)>>
        /\ lastOp' = "click"
        /\ UNCHANGED <<sceneState, cameraSpeed, aiStatus, nPhotos, controlsAutoRotate,
                       lastHandPos, sample, prevHand, emitted,
                       photoList, memos,
                       cameraVars, animVars, placeVars, shakeVars, loopVars,
                       strictVars, threadVars>>

\* lines 1040, 1096: the backdrop and the close button
CloseCard ==
    /\ selectedPhotoIndex # <<>>
    /\ selectedPhotoIndex' = <<>>
    /\ clicked' = <<>>
    /\ lastOp' = "close"
    /\ UNCHANGED <<sceneState, cameraSpeed, aiStatus, nPhotos, controlsAutoRotate,
                   lastHandPos, sample, prevHand, emitted,
                   photoList, memos,
                   cameraVars, animVars, placeVars, shakeVars, loopVars,
                   strictVars, threadVars>>

\* lines 791-795: handleMemoChange, called by the textarea of the card
MemoChange ==
    \E text \in MemoTexts :
        /\ selectedPhotoIndex # <<>>
        /\ memos' = {m \in memos : m.index # selectedPhotoIndex[1]} \cup
                      {[index |-> selectedPhotoIndex[1], text |-> text,
                        photo |-> CardPhoto(photoList, selectedPhotoIndex)]}
        /\ lastOp' = "memo"
        /\ UNCHANGED <<sceneState, cameraSpeed, aiStatus, nPhotos, controlsAutoRotate,
                       lastHandPos, sample, prevHand, emitted,
                       photoList, selectedPhotoIndex, clicked,
                       cameraVars, animVars, placeVars, shakeVars, loopVars,
                       strictVars, threadVars>>

\* line 1001: the mode button
CardModeButton ==
    /\ sceneState' = (IF sceneState = "CHAOS" THEN "FORMED" ELSE "CHAOS")
    /\ lastOp' = "toggle"
    /\ UNCHANGED <<cameraSpeed, aiStatus, nPhotos,
                   lastHandPos, sample, prevHand, emitted,
                   cameraVars, animVars, placeVars, shakeVars, loopVars,
                   cardVars, strictVars, threadVars>>
    /\ controlsAutoRotate' = autoRotate'

InitCard ==
    /\ sceneState = "FORMED"
    /\ cameraSpeed = ZeroSpeed
    /\ controlsAutoRotate = autoRotate
    /\ aiStatus = "INITIALIZING..."
    /\ nPhotos = 0
    /\ GestureIdle
    /\ CameraIdle
    /\ AnimIdle
    /\ PlaceIdle
    /\ ShakeIdle
    /\ LoopIdle
    /\ CardIdle
    /\ StrictIdle
    /\ ThreadIdle

NextCard == CardUpload \/ PhotoClick \/ CloseCard \/ MemoChange \/ CardModeButton

SpecCard == InitCard /\ [][NextCard]_vars

(* C30: after any sequence of uploads, mode changes and ornament clicks,
   ornament i displays photo i (textureIndex = i and i < number of photos);
   the selected index is a valid index into the photo list and the card shows
   the photo that was on the clicked ornament; every memo is kept under the
   index of the photo it was typed for. *)
C30_OrnamentShowsPhoto ==
    /\ nPhotos = Len(photoList)
    /\ \A i \in Ornaments(sceneState, Len(photoList)) :
          /\ i % Len(photoList) = i
          /\ i < Len(photoList)
          /\ photoList[(i % Len(photoList)) + 1] = i + 1
    /\ selectedPhotoIndex # <<>> =>
          /\ selectedPhotoIndex[1] < Len(photoList)
          /\ <<photoList[selectedPhotoIndex[1] + 1]>> = clicked
    /\ \A m \in memos :
          /\ m.index < Len(photoList)
          /\ <<photoList[m.index + 1]>> = m.photo

\* ornament 50, shown only in CHAOS mode, was clicked and given a memo; the
\* mode is FORMED again, where 50 ornaments are shown, and more photos came
C30_Witness ==
    /\ sceneState = "FORMED"
    /\ Len(photoList) = 52
    /\ selectedPhotoIndex = <<50>>
    /\ clicked = <<51>>
    /\ \E m \in memos : m.index = 50 /\ m.text = "first snow"
    /\ \E m \in memos : m.index = 0

(***************************************************************************)
(* The runs of GestureController's effect under React.StrictMode           *)
(* (src/src/main.tsx lines 10-14): on mount React runs the effect, its     *)
(* cleanup, and the effect again.  gestureRecognizer and requestRef are    *)
(* locals of one run (lines 580-581); videoRef and canvasRef belong to the *)
(* component and are shared by the runs.                                   *)
(***************************************************************************)
\* lines 580-605: the locals of a run after the synchronous part of setup
NewEffect(hasMediaDevices) ==
    [cleaned |-> FALSE,
     recognizer |-> "loading",
     camera |-> IF hasMediaDevices THEN "requesting" ELSE "unsupported",
     scheduled |-> FALSE]

\* lines 604-613: the status after the synchronous part of setup
SetupStatus(hasMediaDevices) ==
    IF hasMediaDevices THEN "REQUESTING CAMERA..." ELSE "ERROR: CAMERA PERMISSION DENIED"

\* line 676: the cleanup, cancelAnimationFrame(requestRef), cancels the frame
\* whose handle requestRef holds, if any
Cleanup(e) == [e EXCEPT !.cleaned = TRUE, !.scheduled = FALSE]

\* the runs with a requested animation frame for their predictWebcam
ActiveLoops == {e \in DOMAIN effects : effects[e].scheduled}

\* main.tsx lines 10-14 and lines 579-677: the mount under StrictMode: setup,
\* cleanup and setup again, before any promise settles
StrictMount ==
    /\ effects = <<>>
    /\ mounted
    /\ \E hasMediaDevices \in BOOLEAN :
          /\ effects' = <<Cleanup(NewEffect(hasMediaDevices)), NewEffect(hasMediaDevices)>>
          /\ aiStatus' = SetupStatus(hasMediaDevices)
    /\ lastOp' = "setup"
    /\ UNCHANGED <<sceneState, cameraSpeed, nPhotos, controlsAutoRotate,
                   lastHandPos, sample, prevHand, emitted, ranBy,
                   cameraVars, animVars, placeVars, shakeVars, loopVars,
                   cardVars, threadVars>>

\* lines 587-597: createFromOptions of run e resolved
EffectReady ==
    \E e \in DOMAIN effects :
        /\ effects[e].recognizer = "loading"
        /\ effects' = [effects EXCEPT ![e].recognizer = "ready", ![e].scheduled = TRUE]
        /\ aiStatus' = "AI READY"
        /\ lastOp' = "recognizerReady"
        /\ UNCHANGED <<sceneState, cameraSpeed, nPhotos, controlsAutoRotate,
                       lastHandPos, sample, prevHand, emitted, ranBy,
                       cameraVars, animVars, placeVars, shakeVars, loopVars,
                       cardVars, threadVars>>

\* lines 598-601: the recognizer of run e could not be created
EffectFailed ==
    \E e \in DOMAIN effects, msg \in ErrorMessages :
        /\ effects[e].recognizer = "loading"
        /\ effects' = [effects EXCEPT ![e].recognizer = "failed"]
        /\ aiStatus' = AiError(msg)
        /\ lastOp' = "recognizerFailed"
        /\ UNCHANGED <<sceneState, cameraSpeed, nPhotos, controlsAutoRotate,
                       lastHandPos, sample, prevHand, emitted, ranBy,
                       cameraVars, animVars, placeVars, shakeVars, loopVars,
                       cardVars, threadVars>>

\* lines 606-611: getUserMedia of run e resolved
EffectGranted ==
    \E e \in DOMAIN effects :
        /\ effects[e].camera = "requesting"
        /\ effects' = [effects EXCEPT ![e].camera = "granted"]
        /\ streamLive' = TRUE
        /\ IF videoRefCurrent
           THEN /\ srcObject' = TRUE
                /\ aiStatus' = "AI READY: SHOW HAND"
           ELSE UNCHANGED <<srcObject, aiStatus>>
        /\ lastOp' = "cameraGranted"
        /\ UNCHANGED <<sceneState, cameraSpeed, nPhotos, controlsAutoRotate,
                       lastHandPos, sample, prevHand, emitted, ranBy,
                       mounted, recognizer, camera, videoReady, rafPending,
                       cameraVars, animVars, placeVars, shakeVars,
                       cardVars, threadVars>>

\* line 606: getUserMedia of run e rejected
EffectDenied ==
    \E e \in DOMAIN effects :
        /\ effects[e].camera = "requesting"
        /\ effects' = [effects EXCEPT ![e].camera = "denied"]
        /\ lastOp' = "cameraDenied"
        /\ UNCHANGED <<sceneState, cameraSpeed, aiStatus, nPhotos, controlsAutoRotate,
                       lastHandPos, sample, prevHand, emitted, ranBy,
                       cameraVars, animVars, placeVars, shakeVars, loopVars,
                       cardVars, threadVars>>

\* lines 616-674: one cycle of the predictWebcam of run e
EffectCycle ==
    \E e \in DOMAIN effects :
        /\ effects[e].scheduled
        /\ IF effects[e].recognizer = "ready" /\ videoRefCurrent /\ videoReady
           THEN \/ /\ lastOp' = "cycleThrow"
                   /\ UNCHANGED <<sceneState, cameraSpeed, aiStatus, controlsAutoRotate,
                                  lastHandPos, sample, prevHand, emitted>>
                \/ \E r \in FewResults : ProcessSample(r)
           ELSE /\ lastOp' = "cycleSkip"
                /\ UNCHANGED <<sceneState, cameraSpeed, aiStatus, controlsAutoRotate,
                               lastHandPos, sample, prevHand, emitted>>
        /\ effects' = [effects EXCEPT ![e].scheduled = Rescheduled("ok")]
        /\ ranBy' = e
        /\ UNCHANGED <<nPhotos, cameraVars, animVars, placeVars, shakeVars, loopVars,
                       cardVars, threadVars>>

\* the view is torn down: React clears the refs and runs the cleanup of the
\* run that has none yet
Unmount ==
    /\ mounted
    /\ effects # <<>>
    /\ mounted' = FALSE
    /\ effects' = [e \in DOMAIN effects |->
                     IF effects[e].cleaned THEN effects[e] ELSE Cleanup(effects[e])]
    /\ lastOp' = "teardown"
    /\ UNCHANGED <<sceneState, cameraSpeed, aiStatus, nPhotos, controlsAutoRotate,
                   lastHandPos, sample, prevHand, emitted, ranBy,
                   recognizer, camera, streamLive, srcObject, videoReady, rafPending,
                   cameraVars, animVars, placeVars, shakeVars,
                   cardVars, threadVars>>

InitStrict ==
    /\ sceneState = "FORMED"
    /\ cameraSpeed = ZeroSpeed
    /\ controlsAutoRotate = autoRotate
    /\ aiStatus = "INITIALIZING..."
    /\ nPhotos = 0
    /\ GestureIdle
    /\ CameraIdle
    /\ AnimIdle
    /\ PlaceIdle
    /\ ShakeIdle
    /\ LoopIdle
    /\ CardIdle
    /\ StrictIdle
    /\ ThreadIdle

NextStrict ==
    \/ StrictMount
    \/ EffectReady
    \/ EffectFailed
    \/ EffectGranted
    \/ EffectDenied
    \/ VideoLoaded
    \/ EffectCycle
    \/ Unmount

SpecStrict == InitStrict /\ [][NextStrict]_vars

(* C29: at any time at most one recognition sampling loop is active, with at
   most one pending scheduled cycle; mounting, unmounting and remounting the
   controller as React StrictMode does never leaves two loops running. *)
C29_SingleLoop == Cardinality(ActiveLoops) <= 1

(***************************************************************************)
(* The main thread.  predictWebcam (lines 616-674) and the render loop's   *)
(* frame update (lines 502-512) are both animation-frame callbacks of the  *)
(* page; recognizeForVideo (line 619) is an ordinary call that returns the *)
(* results, so the inference runs inside the callback, to completion.      *)
(* Time is counted in display refresh intervals.                           *)
(***************************************************************************)
MaxRefresh == 4

\* the refresh intervals one recognizeForVideo call can take
InferenceCosts == {0, 1, 2}

\* a refresh interval passes, while an inference computes or after the
\* callbacks of the frame have run; the requested callbacks become due
Refresh ==
    /\ refreshes < MaxRefresh
    /\ \/ inferring /\ remaining > 0
       \/ ~inferring /\ ~predictDue /\ ~frameDue
    /\ refreshes' = refreshes + 1
    /\ remaining' = IF inferring THEN remaining - 1 ELSE remaining
    /\ waited' = IF inferring /\ frameDue THEN waited + 1 ELSE waited
    /\ frameDue' = TRUE
    /\ predictDue' = rafPending
    /\ lastOp' = "refresh"
    /\ UNCHANGED <<sceneState, cameraSpeed, aiStatus, nPhotos, controlsAutoRotate,
                   lastHandPos, sample, prevHand, emitted, inferring,
                   cameraVars, animVars, placeVars, shakeVars, loopVars,
                   cardVars, strictVars>>

\* lines 616-619: predictWebcam starts and calls recognizeForVideo
StartInference ==
    /\ ~inferring
    /\ predictDue
    /\ CycleReady
    /\ \E cost \in InferenceCosts : remaining' = cost
    /\ inferring' = TRUE
    /\ predictDue' = FALSE
    /\ rafPending' = FALSE
    /\ lastOp' = "recognize"
    /\ UNCHANGED <<sceneState, cameraSpeed, aiStatus, nPhotos, controlsAutoRotate,
                   lastHandPos, sample, prevHand, emitted, frameDue, waited, refreshes,
                   mounted, recognizer, camera, streamLive, srcObject, videoReady,
                   cameraVars, animVars, placeVars, shakeVars,
                   cardVars, strictVars>>

\* lines 619-673: recognizeForVideo returns, the results are processed and the
\* next cycle is requested
FinishPredict ==
    /\ inferring
    /\ remaining = 0
    /\ \E r \in FewResults : ProcessSample(r)
    /\ inferring' = FALSE
    /\ rafPending' = Rescheduled("ok")
    /\ UNCHANGED <<nPhotos, remaining, predictDue, frameDue, waited, refreshes,
                   mounted, recognizer, camera, streamLive, srcObject, videoReady,
                   cameraVars, animVars, placeVars, shakeVars,
                   cardVars, strictVars>>

\* lines 502-512: the frame update, run by the render loop when the thread is
\* free
ThreadFrame ==
    /\ ~inferring
    /\ frameDue
    /\ frameDue' = FALSE
    /\ LET newPolar == polar + cameraSpeed.y
       IN  polar' = ClampPolar(IF PolarInside(newPolar) THEN newPolar ELSE polar)
    /\ azimuth' = WrapAzimuth(azimuth + cameraSpeed.x)
    /\ prevPolar' = polar
    /\ lastOp' = "frame"
    /\ UNCHANGED <<sceneState, cameraSpeed, aiStatus, nPhotos, controlsAutoRotate,
                   lastHandPos, sample, prevHand, emitted,
                   inferring, remaining, predictDue, waited, refreshes,
                   animVars, placeVars, shakeVars, loopVars,
                   cardVars, strictVars>>

\* the recognition loop is running: the recognizer is created, the stream is
\* attached and the video has data
InitThread ==
    /\ sceneState = "FORMED"
    /\ cameraSpeed = ZeroSpeed
    /\ controlsAutoRotate = autoRotate
    /\ aiStatus \in {"AI READY", "AI READY: SHOW HAND"}
    /\ nPhotos = 0
    /\ GestureIdle
    /\ polar \in InitialPolars
    /\ azimuth = 0
    /\ prevPolar = polar
    /\ AnimIdle
    /\ PlaceIdle
    /\ ShakeIdle
    /\ mounted = TRUE
    /\ recognizer = "ready"
    /\ camera = "granted"
    /\ streamLive = TRUE
    /\ srcObject = TRUE
    /\ videoReady = TRUE
    /\ rafPending = TRUE
    /\ CardIdle
    /\ StrictIdle
    /\ ThreadIdle

NextThread == Refresh \/ StartInference \/ FinishPredict \/ ThreadFrame

SpecThread == InitThread /\ [][NextThread]_vars

(* C21: the frame updates (interpolation and camera orbit) can occur while a
   recognition inference is in progress: a frame update that is due never
   waits a refresh interval behind an inference, however slow. *)
C21_FrameNeverWaits == waited = 0

====
